---- MODULE Spec2Model ----
(***************************************************************************)
(* Courses microservice: the storage layer (the relational Database and    *)
(* the in-memory MockDatabase of server/db.go, both implementing           *)
(* DBInterface) and the gRPC service layer (CoursesServer) that guards     *)
(* every store call with VerifyToken.                                      *)
(*                                                                         *)
(* A store operation is an operator from a store value and the call's      *)
(* arguments to [st, err, ret]: the store after the call, the sentinel the *)
(* returned error wraps ("nil" for no error) and the returned value.  The  *)
(* actions apply these operators to the variables.  Which backend serves   *)
(* the calls is fixed at construction time (CoursesServer.db).             *)
(*                                                                         *)
(* Spec, SvcSpec and PairSpec take each store method as one step; LockSpec *)
(* runs the MockDatabase methods of concurrent goroutines under its        *)
(* RWMutex, DbConcSpec runs the statements of the Database methods of      *)
(* concurrent goroutines one at a time.                                    *)
(*                                                                         *)
(* Not modelled: the CreatedAt/UpdatedAt timestamps of a row, logging, the *)
(* wire transport.  A SELECT without ORDER BY returns its rows in an       *)
(* unspecified order, so a relational table and the list a relational read *)
(* returns are bags (multisets) of rows.                                   *)
(***************************************************************************)
EXTENDS Naturals, Sequences, FiniteSets, Bags, TLC

VARIABLES
    backend,          \* "Database" or "MockDatabase": the DBInterface behind the server
    courses,          \* MockDatabase.courses: course id -> Course
    courseStudents,   \* MockDatabase.courseStudents: course id -> list of student ids
    courseStaff,      \* MockDatabase.courseStaff: course id -> list of staff ids
    studentCourses,   \* MockDatabase.studentCourses: student id -> list of course ids
    staffCourses,     \* MockDatabase.staffCourses: staff id -> list of course ids
    announcements,    \* MockDatabase.announcements: course id -> list of Announcement
    tblCourses,       \* table courses (primary key course_id): course id -> row
    tblCourseStudent, \* table course_student: bag of <<course_id, student_id>>
    tblCourseStaff,   \* table course_staff: bag of <<course_id, staff_id>>
    tblAnnouncements, \* table announcements: bag of Announcement rows
    claims,           \* CoursesServer.Claims is injected (non-nil)
    threads,          \* goroutines inside a store method: thread -> where it is
    mutex             \* MockDatabase.mutex: [writer, readers]

mockVars == <<courses, courseStudents, courseStaff, studentCourses, staffCourses, announcements>>
dbVars == <<tblCourses, tblCourseStudent, tblCourseStaff, tblAnnouncements>>
storeVars == <<mockVars, dbVars>>
concVars == <<threads, mutex>>
vars == <<backend, mockVars, dbVars, claims, concVars>>

----------------------------------------------------------------------------
\* Bounds and input domains.

\* Most association rows plus announcements a store holds before further adds stop.
MaxRows == 3
\* The rows the association tables hold at most while a goroutine is between two
\* statements of a Database method and other calls run.
MaxRowsInFlight == 1

CourseIDs == {"", "c1", "c2"}
StudentIDs == {"", "s1", "s2"}
StaffIDs == {"", "t1"}
AnnouncementIDs == {"", "a1", "a2"}
Names == {"", "n1", "n2"}
Semesters == {"", "f1"}
Descriptions == {"", "d1"}
Titles == {"ti"}
Contents == {"", "x"}
Tokens == {"good", "bad"}

\* The goroutines that call the store concurrently.
MaxThreads == 2
Threads == 1..MaxThreads

\* No goroutine is inside a store method; the zero sync.RWMutex is unlocked.
Idle == [pc |-> "idle"]
NoThreads == [p \in Threads |-> Idle]
NoWriter == 0
Unlocked == [writer |-> NoWriter, readers |-> {}]

\* A nil *cpb.Course.
NilCourse == [nil |-> TRUE]

\* The cpb.Course messages the calls are made with.
CourseMsgs ==
    [CourseID : {"c1"}, CourseName : Names, Semester : Semesters, Description : Descriptions]
    \cup [CourseID : {"", "c2"}, CourseName : {"n1"}, Semester : {"f1"}, Description : {"d1"}]

\* The cpb.Announcement messages the calls are made with.
AnnouncementMsgs ==
    [AnnouncementID : AnnouncementIDs, AnnouncementTitle : Titles, AnnouncementContent : Contents]

----------------------------------------------------------------------------
\* Go maps and slices.

\* m[k] of a Go map of slices: a missing key reads as the nil (empty) slice.
Lookup(m, k) == IF k \in DOMAIN m THEN m[k] ELSE <<>>

\* m[k] = v
Put(m, k, v) == [x \in DOMAIN m \cup {k} |-> IF x = k THEN v ELSE m[x]]

\* delete(m, k)
Del(m, k) == [x \in DOMAIN m \ {k} |-> m[x]]

\* m[k] = list, for a map of slices.  A key that holds an empty slice reads, ranges
\* and appends exactly like a missing key (Lookup), and no method tells the two apart
\* in what it returns, so the model keeps one form of them: the key is left out.
PutList(m, k, list) == IF list = <<>> THEN Del(m, k) ELSE Put(m, k, list)

EmptyMap == [x \in {} |-> <<>>]

\* for _, e := range s { if e == x { ... } }
Contains(s, x) == \E i \in DOMAIN s : s[i] = x

\* The loop that copies every element different from x, in order.
Without(s, x) == LET keep(e) == e # x IN SelectSeq(s, keep)

\* How many times x occurs in list s.
Occurrences(s, x) == Cardinality({i \in DOMAIN s : s[i] = x})

\* The Course a store builds from a message (db.go: newCourse := &Course{...}).
NewCourse(msg) ==
    [CourseID |-> msg.CourseID, CourseName |-> msg.CourseName,
     Semester |-> msg.Semester, Description |-> msg.Description]

\* updateField: a non-empty incoming value overwrites, an empty one keeps the field.
updateField(old, new) == IF new # "" THEN new ELSE old

\* The Announcement a store builds from an AddAnnouncementRequest.
NewAnnouncement_noTitle(courseID, a) ==
    [AnnouncementID |-> a.AnnouncementID, CourseID |-> courseID,
     Title |-> "", Content |-> a.AnnouncementContent]
NewAnnouncement(courseID, a) ==
    [AnnouncementID |-> a.AnnouncementID, CourseID |-> courseID,
     Title |-> a.AnnouncementTitle, Content |-> a.AnnouncementContent]

\* The result of a store call.
Result(st, err, ret) == [st |-> st, err |-> err, ret |-> ret]
NoValue == "none"

----------------------------------------------------------------------------
\* MockDatabase (server/db.go): the in-memory store.  m is the record of its maps.
\* Every method runs under m.mutex, so each is one atomic step.

MockStore ==
    [courses |-> courses, courseStudents |-> courseStudents, courseStaff |-> courseStaff,
     studentCourses |-> studentCourses, staffCourses |-> staffCourses,
     announcements |-> announcements]

NewMockDatabase ==
    [courses |-> EmptyMap, courseStudents |-> EmptyMap, courseStaff |-> EmptyMap,
     studentCourses |-> EmptyMap, staffCourses |-> EmptyMap, announcements |-> EmptyMap]

MockAddCourse_overwrites(m, course) ==
    IF course = NilCourse THEN Result(m, "ErrCourseNil", NoValue)
    ELSE IF course.CourseID = "" THEN Result(m, "ErrCourseIDEmpty", NoValue)
    ELSE Result([m EXCEPT !.courses = Put(@, course.CourseID, NewCourse(course))],
                "nil", NewCourse(course))
MockAddCourse(m, course) ==
    IF course = NilCourse THEN Result(m, "ErrCourseNil", NoValue)
    ELSE IF course.CourseID = "" THEN Result(m, "ErrCourseIDEmpty", NoValue)
    ELSE IF course.CourseID \in DOMAIN m.courses
         THEN Result(m, "ErrCourseAlreadyExists", NoValue)
    ELSE Result([m EXCEPT !.courses = Put(@, course.CourseID, NewCourse(course))],
                "nil", NewCourse(course))

MockGetCourse(m, courseID) ==
    IF courseID = "" THEN Result(m, "ErrCourseIDEmpty", NoValue)
    ELSE IF courseID \notin DOMAIN m.courses THEN Result(m, "ErrCourseNotFound", NoValue)
    ELSE Result(m, "nil", m.courses[courseID])

MockUpdateCourse_dropsAnnouncements(m, course) ==
    IF course = NilCourse THEN Result(m, "ErrCourseNil", NoValue)
    ELSE IF course.CourseID = "" THEN Result(m, "ErrCourseIDEmpty", NoValue)
    ELSE IF course.CourseID \notin DOMAIN m.courses
         THEN Result(m, "ErrCourseNotFound", NoValue)
    ELSE Result([m EXCEPT !.courses = Put(@, course.CourseID, NewCourse(course)),
                          !.announcements = Del(@, course.CourseID)],
                "nil", NewCourse(course))
MockUpdateCourse(m, course) ==
    IF course = NilCourse THEN Result(m, "ErrCourseNil", NoValue)
    ELSE IF course.CourseID = "" THEN Result(m, "ErrCourseIDEmpty", NoValue)
    ELSE IF course.CourseID \notin DOMAIN m.courses
         THEN Result(m, "ErrCourseNotFound", NoValue)
    ELSE LET existingCourse == m.courses[course.CourseID]
             updated == [existingCourse EXCEPT
                            !.CourseName = updateField(@, course.CourseName),
                            !.Semester = updateField(@, course.Semester),
                            !.Description = updateField(@, course.Description)]
         IN Result([m EXCEPT !.courses = Put(@, course.CourseID, updated)], "nil", updated)

\* The two clean-up loops of DeleteCourse: every entity's course list loses courseID.
removeCourseFromAll_dropsLists(courseMap, courseID) ==
    [e \in {x \in DOMAIN courseMap : ~Contains(courseMap[x], courseID)} |-> courseMap[e]]
removeCourseFromAll(courseMap, courseID) ==
    [e \in {x \in DOMAIN courseMap : Without(courseMap[x], courseID) # <<>>}
        |-> Without(courseMap[e], courseID)]

MockDeleteCourse(m, courseID) ==
    IF courseID = "" THEN Result(m, "ErrCourseIDEmpty", NoValue)
    ELSE IF courseID \notin DOMAIN m.courses THEN Result(m, "ErrCourseNotFound", NoValue)
    ELSE Result([m EXCEPT !.courses = Del(@, courseID),
                          !.courseStudents = Del(@, courseID),
                          !.courseStaff = Del(@, courseID),
                          !.announcements = Del(@, courseID),
                          !.studentCourses = removeCourseFromAll(@, courseID),
                          !.staffCourses = removeCourseFromAll(@, courseID)],
                "nil", NoValue)

\* entityMap and courseMap name the two maps of m the helper works on.
addEntityToCourse(m, courseID, entityID, entityMap, courseMap, emptyErr) ==
    IF courseID = "" THEN Result(m, "ErrCourseIDEmpty", NoValue)
    ELSE IF entityID = "" THEN Result(m, emptyErr, NoValue)
    ELSE IF courseID \notin DOMAIN m.courses THEN Result(m, "ErrCourseNotFound", NoValue)
    ELSE LET entities == Lookup(m[entityMap], courseID)
             em == PutList(m[entityMap], courseID, Append(entities, entityID))
             courseList == Lookup(m[courseMap], entityID)
             cm == PutList(m[courseMap], entityID, Append(courseList, courseID))
         IN IF Contains(entities, entityID) THEN Result(m, "nil", NoValue)
            ELSE IF Contains(courseList, courseID)
            THEN Result([m EXCEPT ![entityMap] = em], "nil", NoValue)
            ELSE Result([m EXCEPT ![entityMap] = em, ![courseMap] = cm], "nil", NoValue)

validateRemoveEntityParams(m, courseID, entityID, emptyErr) ==
    IF courseID = "" THEN "ErrCourseIDEmpty"
    ELSE IF entityID = "" THEN emptyErr
    ELSE IF courseID \notin DOMAIN m.courses THEN "ErrCourseNotFound"
    ELSE "nil"

\* [map, found]: the entity map after the removal, and whether entityID was in the list.
removeEntityFromMap(courseID, entityID, entityMap) ==
    [map |-> PutList(entityMap, courseID, Without(Lookup(entityMap, courseID), entityID)),
     found |-> Contains(Lookup(entityMap, courseID), entityID)]

removeCourseFromEntityMap_keepsCourse(courseID, entityID, courseMap) == courseMap
removeCourseFromEntityMap(courseID, entityID, courseMap) ==
    PutList(courseMap, entityID, Without(Lookup(courseMap, entityID), courseID))

removeEntityFromCourse(m, courseID, entityID, entityMap, courseMap, emptyErr) ==
    LET verr == validateRemoveEntityParams(m, courseID, entityID, emptyErr)
        rem == removeEntityFromMap(courseID, entityID, m[entityMap])
    IN IF verr # "nil" THEN Result(m, verr, NoValue)
       ELSE IF ~rem.found
            THEN Result([m EXCEPT ![entityMap] = rem.map], "ErrCourseNotFound", NoValue)
       ELSE Result([m EXCEPT ![entityMap] = rem.map,
                             ![courseMap] = removeCourseFromEntityMap(courseID, entityID, @)],
                   "nil", NoValue)

MockAddStudentToCourse(m, courseID, studentID) ==
    addEntityToCourse(m, courseID, studentID, "courseStudents", "studentCourses",
                      "ErrStudentIDEmpty")

MockRemoveStudentFromCourse(m, courseID, studentID) ==
    removeEntityFromCourse(m, courseID, studentID, "courseStudents", "studentCourses",
                           "ErrStudentIDEmpty")

MockAddStaffToCourse(m, courseID, staffID) ==
    addEntityToCourse(m, courseID, staffID, "courseStaff", "staffCourses", "ErrStaffIDEmpty")

MockRemoveStaffFromCourse(m, courseID, staffID) ==
    removeEntityFromCourse(m, courseID, staffID, "courseStaff", "staffCourses",
                           "ErrStaffIDEmpty")

\* GetCourseStudents, GetCourseStaff, GetAnnouncements: a copy of the course's list.
mockCourseList(m, courseID, listMap) ==
    IF courseID = "" THEN Result(m, "ErrCourseIDEmpty", NoValue)
    ELSE IF courseID \notin DOMAIN m.courses THEN Result(m, "ErrCourseNotFound", NoValue)
    ELSE Result(m, "nil", Lookup(m[listMap], courseID))

MockGetCourseStudents(m, courseID) == mockCourseList(m, courseID, "courseStudents")
MockGetCourseStaff(m, courseID) == mockCourseList(m, courseID, "courseStaff")
MockGetAnnouncements(m, courseID) == mockCourseList(m, courseID, "announcements")

MockGetStudentCourses(m, studentID) ==
    IF studentID = "" THEN Result(m, "ErrStudentIDEmpty", NoValue)
    ELSE Result(m, "nil", Lookup(m.studentCourses, studentID))

MockGetStaffCourses(m, staffID) ==
    IF staffID = "" THEN Result(m, "ErrStaffIDEmpty", NoValue)
    ELSE Result(m, "nil", Lookup(m.staffCourses, staffID))

\* req is [CourseID, Announcement].
MockAddAnnouncement(m, req) ==
    IF req.CourseID = "" \/ req.Announcement.AnnouncementContent = ""
    THEN Result(m, "ErrCourseIDEmpty", NoValue)
    ELSE IF req.CourseID \notin DOMAIN m.courses THEN Result(m, "ErrCourseNotFound", NoValue)
    ELSE Result([m EXCEPT !.announcements =
                    PutList(@, req.CourseID,
                        Append(Lookup(@, req.CourseID),
                               NewAnnouncement(req.CourseID, req.Announcement)))],
                "nil", NoValue)

MockRemoveAnnouncement_clearsCourse(m, courseID, announcementID) ==
    IF courseID = "" THEN Result(m, "ErrCourseIDEmpty", NoValue)
    ELSE IF announcementID = "" THEN Result(m, "ErrAnnouncementEmpty", NoValue)
    ELSE IF courseID \notin DOMAIN m.courses THEN Result(m, "ErrCourseNotFound", NoValue)
    ELSE LET old == Lookup(m.announcements, courseID)
             found == \E i \in DOMAIN old : old[i].AnnouncementID = announcementID
             st == [m EXCEPT !.announcements = Del(@, courseID)]
         IN IF found THEN Result(st, "nil", NoValue)
            ELSE Result(m, "ErrCourseNotFound", NoValue)
MockRemoveAnnouncement(m, courseID, announcementID) ==
    IF courseID = "" THEN Result(m, "ErrCourseIDEmpty", NoValue)
    ELSE IF announcementID = "" THEN Result(m, "ErrAnnouncementEmpty", NoValue)
    ELSE IF courseID \notin DOMAIN m.courses THEN Result(m, "ErrCourseNotFound", NoValue)
    ELSE LET old == Lookup(m.announcements, courseID)
             keep(a) == a.AnnouncementID # announcementID
             found == \E i \in DOMAIN old : old[i].AnnouncementID = announcementID
             st == [m EXCEPT !.announcements = PutList(@, courseID, SelectSeq(old, keep))]
         IN IF found THEN Result(st, "nil", NoValue)
            ELSE Result(st, "ErrCourseNotFound", NoValue)

----------------------------------------------------------------------------
\* Database (server/db.go): the relational store.  d is the record of its tables.
\* A table without a key (course_student, course_staff, announcements) is a bag: a
\* function from a row to the number of copies of it, over the rows present.

DbStore ==
    [tblCourses |-> tblCourses, tblCourseStudent |-> tblCourseStudent,
     tblCourseStaff |-> tblCourseStaff, tblAnnouncements |-> tblAnnouncements]

\* createSchemaIfNotExists on a fresh database: four empty tables.
NewDatabase ==
    [tblCourses |-> EmptyMap, tblCourseStudent |-> EmptyMap,
     tblCourseStaff |-> EmptyMap, tblAnnouncements |-> EmptyMap]

Copies(tbl, row) == IF row \in DOMAIN tbl THEN tbl[row] ELSE 0

\* INSERT of one row into a table without a key.
InsertRow(tbl, row) == Put(tbl, row, Copies(tbl, row) + 1)

\* DELETE ... WHERE: hits is the set of rows that match; the others stay.
DeleteWhere(tbl, hits) == [r \in DOMAIN tbl \ hits |-> tbl[r]]

\* RowsAffected of that DELETE.
RECURSIVE SumCopies(_, _)
SumCopies(tbl, rows) ==
    IF rows = {} THEN 0
    ELSE LET r == CHOOSE x \in rows : TRUE IN tbl[r] + SumCopies(tbl, rows \ {r})

RowCount(tbl) == SumCopies(tbl, DOMAIN tbl)

\* SELECT col FROM tbl WHERE other = key, for a two-column table: the bag of the
\* selected column's values (col and other are 1 and 2, or 2 and 1).
SelectColumn(tbl, col, other, key) ==
    LET rows == {r \in DOMAIN tbl : r[other] = key}
    IN [v \in {r[col] : r \in rows} |->
            SumCopies(tbl, {r \in rows : r[col] = v})]

DbAddCourse(d, course) ==
    IF course = NilCourse THEN Result(d, "ErrCourseNil", NoValue)
    ELSE IF course.CourseID = "" THEN Result(d, "ErrCourseIDEmpty", NoValue)
    ELSE IF course.CourseID \in DOMAIN d.tblCourses
         THEN Result(d, "ErrUniqueViolation", NoValue)   \* course_id is the primary key
    ELSE Result([d EXCEPT !.tblCourses = Put(@, course.CourseID, NewCourse(course))],
                "nil", NewCourse(course))

DbGetCourse(d, courseID) ==
    IF courseID = "" THEN Result(d, "ErrCourseIDEmpty", NoValue)
    ELSE IF courseID \notin DOMAIN d.tblCourses
         THEN Result(d, "sql.ErrNoRows", NoValue)        \* Scan of a single row
    ELSE Result(d, "nil", d.tblCourses[courseID])

DbUpdateCourse(d, course) ==
    IF course = NilCourse THEN Result(d, "ErrCourseNil", NoValue)
    ELSE IF course.CourseID = "" THEN Result(d, "ErrCourseIDEmpty", NoValue)
    ELSE LET got == DbGetCourse(d, course.CourseID)
             existingCourse == got.ret
             updated == [existingCourse EXCEPT
                            !.CourseName = updateField(@, course.CourseName),
                            !.Semester = updateField(@, course.Semester),
                            !.Description = updateField(@, course.Description)]
         IN IF got.err # "nil" THEN Result(d, got.err, NoValue)
            ELSE Result([d EXCEPT !.tblCourses = Put(@, course.CourseID, updated)],
                        "nil", updated)

DbDeleteCourse(d, courseID) ==
    IF courseID = "" THEN Result(d, "ErrCourseIDEmpty", NoValue)
    ELSE IF courseID \notin DOMAIN d.tblCourses
         THEN Result(d, "ErrCourseNotFound", NoValue)    \* RowsAffected = 0
    ELSE LET ofCourse(tbl) == {r \in DOMAIN tbl : r[1] = courseID}
         IN Result([d EXCEPT !.tblCourses = Del(@, courseID),
                             !.tblCourseStudent = DeleteWhere(@, ofCourse(@)),
                             !.tblCourseStaff = DeleteWhere(@, ofCourse(@))],
                   "nil", NoValue)

\* AddStudentToCourse / AddStaffToCourse: tbl names the association table.
dbAddEntity(d, courseID, entityID, tbl, emptyErr) ==
    IF courseID = "" THEN Result(d, "ErrCourseIDEmpty", NoValue)
    ELSE IF entityID = "" THEN Result(d, emptyErr, NoValue)
    ELSE Result([d EXCEPT ![tbl] = InsertRow(@, <<courseID, entityID>>)], "nil", NoValue)

\* RemoveStudentFromCourse / RemoveStaffFromCourse.
dbRemoveEntity_ignoresRowsAffected(d, courseID, entityID, tbl, emptyErr) ==
    IF courseID = "" THEN Result(d, "ErrCourseIDEmpty", NoValue)
    ELSE IF entityID = "" THEN Result(d, emptyErr, NoValue)
    ELSE Result([d EXCEPT ![tbl] = DeleteWhere(@, {<<courseID, entityID>>})],
                "nil", NoValue)
dbRemoveEntity(d, courseID, entityID, tbl, emptyErr) ==
    IF courseID = "" THEN Result(d, "ErrCourseIDEmpty", NoValue)
    ELSE IF entityID = "" THEN Result(d, emptyErr, NoValue)
    ELSE IF Copies(d[tbl], <<courseID, entityID>>) = 0
         THEN Result(d, "ErrCourseNotFound", NoValue)    \* RowsAffected = 0
    ELSE Result([d EXCEPT ![tbl] = DeleteWhere(@, {<<courseID, entityID>>})],
                "nil", NoValue)

DbAddStudentToCourse(d, courseID, studentID) ==
    dbAddEntity(d, courseID, studentID, "tblCourseStudent", "ErrStudentIDEmpty")

DbRemoveStudentFromCourse(d, courseID, studentID) ==
    dbRemoveEntity(d, courseID, studentID, "tblCourseStudent", "ErrStudentIDEmpty")

DbAddStaffToCourse(d, courseID, staffID) ==
    dbAddEntity(d, courseID, staffID, "tblCourseStaff", "ErrStaffIDEmpty")

DbRemoveStaffFromCourse(d, courseID, staffID) ==
    dbRemoveEntity(d, courseID, staffID, "tblCourseStaff", "ErrStaffIDEmpty")

DbGetCourseStudents(d, courseID) ==
    IF courseID = "" THEN Result(d, "ErrCourseIDEmpty", NoValue)
    ELSE Result(d, "nil", SelectColumn(d.tblCourseStudent, 2, 1, courseID))

DbGetCourseStaff(d, courseID) ==
    IF courseID = "" THEN Result(d, "ErrCourseIDEmpty", NoValue)
    ELSE Result(d, "nil", SelectColumn(d.tblCourseStaff, 2, 1, courseID))

DbGetStudentCourses(d, studentID) ==
    IF studentID = "" THEN Result(d, "ErrStudentIDEmpty", NoValue)
    ELSE Result(d, "nil", SelectColumn(d.tblCourseStudent, 1, 2, studentID))

DbGetStaffCourses(d, staffID) ==
    IF staffID = "" THEN Result(d, "ErrStaffIDEmpty", NoValue)
    ELSE Result(d, "nil", SelectColumn(d.tblCourseStaff, 1, 2, staffID))

\* The rows of courses with that semester (course_id is a key: a set of rows).
DbGetCoursesBySemester_allCourses(d, semester) ==
    IF semester = "" THEN Result(d, "ErrSemesterEmpty", NoValue)
    ELSE Result(d, "nil", {d.tblCourses[c] : c \in DOMAIN d.tblCourses})
DbGetCoursesBySemester(d, semester) ==
    IF semester = "" THEN Result(d, "ErrSemesterEmpty", NoValue)
    ELSE Result(d, "nil",
                {d.tblCourses[c] : c \in {x \in DOMAIN d.tblCourses :
                                            d.tblCourses[x].Semester = semester}})

DbAddAnnouncement(d, req) ==
    IF req.CourseID = "" \/ req.Announcement.AnnouncementContent = ""
    THEN Result(d, "ErrCourseIDEmpty", NoValue)
    ELSE Result([d EXCEPT !.tblAnnouncements =
                    InsertRow(@, NewAnnouncement(req.CourseID, req.Announcement))],
                "nil", NoValue)

DbGetAnnouncements(d, courseID) ==
    IF courseID = "" THEN Result(d, "ErrCourseIDEmpty", NoValue)
    ELSE Result(d, "nil",
                [r \in {x \in DOMAIN d.tblAnnouncements : x.CourseID = courseID}
                    |-> d.tblAnnouncements[r]])

DbRemoveAnnouncement(d, courseID, announcementID) ==
    IF courseID = "" THEN Result(d, "ErrCourseIDEmpty", NoValue)
    ELSE IF announcementID = "" THEN Result(d, "ErrAnnouncementEmpty", NoValue)
    ELSE LET hits == {r \in DOMAIN d.tblAnnouncements :
                        r.CourseID = courseID /\ r.AnnouncementID = announcementID}
         IN IF hits = {}
            THEN Result(d, "ErrCourseNotFound", NoValue) \* RowsAffected = 0
            ELSE Result([d EXCEPT !.tblAnnouncements = DeleteWhere(@, hits)],
                        "nil", NoValue)

----------------------------------------------------------------------------
\* DBInterface: the call goes to the backend chosen at construction.

IsMock == backend = "MockDatabase"

\* The store the server holds.
Store == IF IsMock THEN MockStore ELSE DbStore

\* OnX(st, ...): method X of the backend, run on the store value st.
OnAddCourse(st, course) ==
    IF IsMock THEN MockAddCourse(st, course) ELSE DbAddCourse(st, course)
OnGetCourse(st, courseID) ==
    IF IsMock THEN MockGetCourse(st, courseID) ELSE DbGetCourse(st, courseID)
OnUpdateCourse(st, course) ==
    IF IsMock THEN MockUpdateCourse(st, course) ELSE DbUpdateCourse(st, course)
OnDeleteCourse(st, courseID) ==
    IF IsMock THEN MockDeleteCourse(st, courseID) ELSE DbDeleteCourse(st, courseID)
OnAddStudentToCourse(st, courseID, studentID) ==
    IF IsMock THEN MockAddStudentToCourse(st, courseID, studentID) ELSE DbAddStudentToCourse(st, courseID, studentID)
OnRemoveStudentFromCourse(st, courseID, studentID) ==
    IF IsMock THEN MockRemoveStudentFromCourse(st, courseID, studentID) ELSE DbRemoveStudentFromCourse(st, courseID, studentID)
OnAddStaffToCourse(st, courseID, staffID) ==
    IF IsMock THEN MockAddStaffToCourse(st, courseID, staffID) ELSE DbAddStaffToCourse(st, courseID, staffID)
OnRemoveStaffFromCourse(st, courseID, staffID) ==
    IF IsMock THEN MockRemoveStaffFromCourse(st, courseID, staffID) ELSE DbRemoveStaffFromCourse(st, courseID, staffID)
OnGetCourseStudents(st, courseID) ==
    IF IsMock THEN MockGetCourseStudents(st, courseID) ELSE DbGetCourseStudents(st, courseID)
OnGetCourseStaff(st, courseID) ==
    IF IsMock THEN MockGetCourseStaff(st, courseID) ELSE DbGetCourseStaff(st, courseID)
OnGetStudentCourses(st, studentID) ==
    IF IsMock THEN MockGetStudentCourses(st, studentID) ELSE DbGetStudentCourses(st, studentID)
OnGetStaffCourses(st, staffID) ==
    IF IsMock THEN MockGetStaffCourses(st, staffID) ELSE DbGetStaffCourses(st, staffID)
OnAddAnnouncement(st, req) ==
    IF IsMock THEN MockAddAnnouncement(st, req) ELSE DbAddAnnouncement(st, req)
OnGetAnnouncements(st, courseID) ==
    IF IsMock THEN MockGetAnnouncements(st, courseID) ELSE DbGetAnnouncements(st, courseID)
OnRemoveAnnouncement(st, courseID, announcementID) ==
    IF IsMock THEN MockRemoveAnnouncement(st, courseID, announcementID) ELSE DbRemoveAnnouncement(st, courseID, announcementID)

\* CallX(...): method X run on the store as it is now.
CallAddCourse(course) == OnAddCourse(Store, course)
CallGetCourse(courseID) == OnGetCourse(Store, courseID)
CallUpdateCourse(course) == OnUpdateCourse(Store, course)
CallDeleteCourse(courseID) == OnDeleteCourse(Store, courseID)
CallAddStudentToCourse(courseID, studentID) == OnAddStudentToCourse(Store, courseID, studentID)
CallRemoveStudentFromCourse(courseID, studentID) == OnRemoveStudentFromCourse(Store, courseID, studentID)
CallAddStaffToCourse(courseID, staffID) == OnAddStaffToCourse(Store, courseID, staffID)
CallRemoveStaffFromCourse(courseID, staffID) == OnRemoveStaffFromCourse(Store, courseID, staffID)
CallGetCourseStudents(courseID) == OnGetCourseStudents(Store, courseID)
CallGetCourseStaff(courseID) == OnGetCourseStaff(Store, courseID)
CallGetStudentCourses(studentID) == OnGetStudentCourses(Store, studentID)
CallGetStaffCourses(staffID) == OnGetStaffCourses(Store, staffID)
CallAddAnnouncement(req) == OnAddAnnouncement(Store, req)
CallGetAnnouncements(courseID) == OnGetAnnouncements(Store, courseID)
CallRemoveAnnouncement(courseID, announcementID) == OnRemoveAnnouncement(Store, courseID, announcementID)

\* The store becomes st (a value of the backend's kind).
Commit(st) ==
    IF IsMock
    THEN /\ courses' = st.courses
         /\ courseStudents' = st.courseStudents
         /\ courseStaff' = st.courseStaff
         /\ studentCourses' = st.studentCourses
         /\ staffCourses' = st.staffCourses
         /\ announcements' = st.announcements
         /\ UNCHANGED dbVars
    ELSE /\ tblCourses' = st.tblCourses
         /\ tblCourseStudent' = st.tblCourseStudent
         /\ tblCourseStaff' = st.tblCourseStaff
         /\ tblAnnouncements' = st.tblAnnouncements
         /\ UNCHANGED mockVars

RECURSIVE SumLen(_, _)
SumLen(m, keys) ==
    IF keys = {} THEN 0
    ELSE LET k == CHOOSE x \in keys : TRUE IN Len(m[k]) + SumLen(m, keys \ {k})

\* Association entries plus announcements the store holds.
StoreSize ==
    IF IsMock
    THEN SumLen(courseStudents, DOMAIN courseStudents)
         + SumLen(courseStaff, DOMAIN courseStaff)
         + SumLen(announcements, DOMAIN announcements)
    ELSE RowCount(tblCourseStudent) + RowCount(tblCourseStaff) + RowCount(tblAnnouncements)

\* The goroutines between two statements of a Database method.
InFlight == {p \in Threads : threads[p] # Idle}

\* The entries the store may hold: MaxRows, and MaxRowsInFlight while a goroutine is
\* in flight.
RowBound == IF InFlight = {} THEN MaxRows ELSE MaxRowsInFlight

\* The calls that are one step of the program: every MockDatabase method (it holds the
\* mutex from its first line to its return) and every Database method of one
\* statement.  The store becomes the store of the method's result; the error and the
\* value the method returns go back to the caller and are no state of the program.
\* Database.UpdateCourse and Database.DeleteCourse are several statements with no
\* transaction around them and are no such step: they are the actions
\* DbUpdateCourseCall and DbDeleteCourseCall and the statements that follow them.
\* An add is taken only while the store holds fewer than RowBound entries.

AddCourse(course) ==
    /\ Commit(CallAddCourse(course).st)
    /\ UNCHANGED <<backend, claims, concVars>>
GetCourse(c) ==
    /\ Commit(CallGetCourse(c).st)
    /\ UNCHANGED <<backend, claims, concVars>>
UpdateCourse(course) ==
    /\ IsMock
    /\ Commit(CallUpdateCourse(course).st)
    /\ UNCHANGED <<backend, claims, concVars>>
DeleteCourse(c) ==
    /\ IsMock
    /\ Commit(CallDeleteCourse(c).st)
    /\ UNCHANGED <<backend, claims, concVars>>
AddStudentToCourse(c, s) ==
    /\ StoreSize < RowBound
    /\ Commit(CallAddStudentToCourse(c, s).st)
    /\ UNCHANGED <<backend, claims, concVars>>
RemoveStudentFromCourse(c, s) ==
    /\ Commit(CallRemoveStudentFromCourse(c, s).st)
    /\ UNCHANGED <<backend, claims, concVars>>
AddStaffToCourse(c, t) ==
    /\ StoreSize < RowBound
    /\ Commit(CallAddStaffToCourse(c, t).st)
    /\ UNCHANGED <<backend, claims, concVars>>
RemoveStaffFromCourse(c, t) ==
    /\ Commit(CallRemoveStaffFromCourse(c, t).st)
    /\ UNCHANGED <<backend, claims, concVars>>
GetCourseStudents(c) ==
    /\ Commit(CallGetCourseStudents(c).st)
    /\ UNCHANGED <<backend, claims, concVars>>
GetCourseStaff(c) ==
    /\ Commit(CallGetCourseStaff(c).st)
    /\ UNCHANGED <<backend, claims, concVars>>
GetStudentCourses(s) ==
    /\ Commit(CallGetStudentCourses(s).st)
    /\ UNCHANGED <<backend, claims, concVars>>
GetStaffCourses(t) ==
    /\ Commit(CallGetStaffCourses(t).st)
    /\ UNCHANGED <<backend, claims, concVars>>
AddAnnouncement(c, a) ==
    /\ StoreSize < RowBound
    /\ Commit(CallAddAnnouncement([CourseID |-> c, Announcement |-> a]).st)
    /\ UNCHANGED <<backend, claims, concVars>>
GetAnnouncements(c) ==
    /\ Commit(CallGetAnnouncements(c).st)
    /\ UNCHANGED <<backend, claims, concVars>>
RemoveAnnouncement(c, a) ==
    /\ Commit(CallRemoveAnnouncement(c, a).st)
    /\ UNCHANGED <<backend, claims, concVars>>
\* Only Database has the method.
GetCoursesBySemester(semester) ==
    /\ ~IsMock
    /\ Commit(DbGetCoursesBySemester(DbStore, semester).st)
    /\ UNCHANGED <<backend, claims, concVars>>

\* After construction: NewMockDatabase() or a fresh schema, no Claims injected.
Init ==
    /\ backend \in {"Database", "MockDatabase"}
    /\ courses = NewMockDatabase.courses
    /\ courseStudents = NewMockDatabase.courseStudents
    /\ courseStaff = NewMockDatabase.courseStaff
    /\ studentCourses = NewMockDatabase.studentCourses
    /\ staffCourses = NewMockDatabase.staffCourses
    /\ announcements = NewMockDatabase.announcements
    /\ tblCourses = NewDatabase.tblCourses
    /\ tblCourseStudent = NewDatabase.tblCourseStudent
    /\ tblCourseStaff = NewDatabase.tblCourseStaff
    /\ tblAnnouncements = NewDatabase.tblAnnouncements
    /\ claims = FALSE
    /\ threads = NoThreads
    /\ mutex = Unlocked

\* The calls that are one step, made one after the other or by any goroutines.
StepNext ==
    \/ \E course \in CourseMsgs \cup {NilCourse} : AddCourse(course)
    \/ \E c \in CourseIDs : GetCourse(c)
    \/ \E course \in CourseMsgs \cup {NilCourse} : UpdateCourse(course)
    \/ \E c \in CourseIDs : DeleteCourse(c)
    \/ \E c \in CourseIDs, s \in StudentIDs : AddStudentToCourse(c, s)
    \/ \E c \in CourseIDs, s \in StudentIDs : RemoveStudentFromCourse(c, s)
    \/ \E c \in CourseIDs, t \in StaffIDs : AddStaffToCourse(c, t)
    \/ \E c \in CourseIDs, t \in StaffIDs : RemoveStaffFromCourse(c, t)
    \/ \E c \in CourseIDs : GetCourseStudents(c)
    \/ \E c \in CourseIDs : GetCourseStaff(c)
    \/ \E s \in StudentIDs : GetStudentCourses(s)
    \/ \E t \in StaffIDs : GetStaffCourses(t)
    \/ \E c \in CourseIDs, a \in AnnouncementMsgs : AddAnnouncement(c, a)
    \/ \E c \in CourseIDs : GetAnnouncements(c)
    \/ \E c \in CourseIDs, a \in AnnouncementIDs : RemoveAnnouncement(c, a)
    \/ \E semester \in Semesters : GetCoursesBySemester(semester)

----------------------------------------------------------------------------
\* CoursesServer: the gRPC handlers.  A handler OnSvcX is an operator from the store it
\* is called on, the token and the request to [st, code, body, calls]: the store after the call, the status code of
\* the reply ("OK" for a nil error), the response message, and the DBInterface
\* methods the handler invoked, in order.

\* The tokens BaseServiceServer.VerifyToken accepts.  The base verifier is library
\* code; what is taken of it is the contract of the gate: it verifies a token or it
\* returns an error.  Tokens holds a token of each kind.
ValidTokens == {"good"}

BaseVerifyToken(token) == token \in ValidTokens

\* nil, or the error "failed to verify token".
VerifyToken_ignoresBase(token) == "nil"
VerifyToken_ignoresClaims(token) ==
    IF ~BaseVerifyToken(token) THEN "ErrVerifyToken" ELSE "nil"
VerifyToken(token) ==
    IF claims THEN "nil"
    ELSE IF ~BaseVerifyToken(token) THEN "ErrVerifyToken"
    ELSE "nil"

\* The calls VerifyToken makes: s.BaseServiceServer.VerifyToken, unless s.Claims is set.
VerifyTokenCalls(token) == IF claims THEN <<>> ELSE <<"BaseVerifyToken">>

Reply(st, code, body, calls) == [st |-> st, code |-> code, body |-> body, calls |-> calls]

\* The reply every handler gives when VerifyToken fails (st: the store it was called on).
UnauthenticatedOn(st) == Reply(st, "Unauthenticated", NoValue, <<>>)

\* cpb.Course getters on a possibly nil message: a nil message reads as empty fields.
CourseFields(course) ==
    IF course = NilCourse
    THEN [CourseID |-> "", CourseName |-> "", Semester |-> "", Description |-> ""]
    ELSE course

OnSvcGetCourse(st, token, c) ==
    IF VerifyToken(token) # "nil" THEN UnauthenticatedOn(st)
    ELSE LET r == OnGetCourse(st, c)
         IN IF r.err # "nil" THEN Reply(r.st, "NotFound", NoValue, <<"GetCourse">>)
            ELSE Reply(r.st, "OK", r.ret, <<"GetCourse">>)

OnSvcCreateCourse(st, token, course) ==
    IF VerifyToken(token) # "nil" THEN UnauthenticatedOn(st)
    ELSE LET r == OnAddCourse(st, CourseFields(course))
         IN IF r.err # "nil" THEN Reply(r.st, "Internal", NoValue, <<"AddCourse">>)
            ELSE Reply(r.st, "OK", course, <<"AddCourse">>)

OnSvcUpdateCourse(st, token, course) ==
    IF VerifyToken(token) # "nil" THEN UnauthenticatedOn(st)
    ELSE LET r == OnUpdateCourse(st, course)
         IN IF r.err # "nil" THEN Reply(r.st, "Internal", NoValue, <<"UpdateCourse">>)
            ELSE Reply(r.st, "OK", r.ret, <<"UpdateCourse">>)

OnSvcDeleteCourse(st, token, c) ==
    IF VerifyToken(token) # "nil" THEN UnauthenticatedOn(st)
    ELSE LET r == OnDeleteCourse(st, c)
         IN IF r.err # "nil" THEN Reply(r.st, "Internal", NoValue, <<"DeleteCourse">>)
            ELSE Reply(r.st, "OK", NoValue, <<"DeleteCourse">>)

OnSvcAddStudentToCourse(st, token, c, s) ==
    IF VerifyToken(token) # "nil" THEN UnauthenticatedOn(st)
    ELSE LET r == OnAddStudentToCourse(st, c, s)
         IN IF r.err # "nil" THEN Reply(r.st, "Internal", NoValue, <<"AddStudentToCourse">>)
            ELSE Reply(r.st, "OK", NoValue, <<"AddStudentToCourse">>)

OnSvcRemoveStudentFromCourse(st, token, c, s) ==
    IF VerifyToken(token) # "nil" THEN UnauthenticatedOn(st)
    ELSE LET r == OnRemoveStudentFromCourse(st, c, s)
         IN IF r.err # "nil"
            THEN Reply(r.st, "Internal", NoValue, <<"RemoveStudentFromCourse">>)
            ELSE Reply(r.st, "OK", NoValue, <<"RemoveStudentFromCourse">>)

OnSvcAddStaffToCourse(st, token, c, t) ==
    IF VerifyToken(token) # "nil" THEN UnauthenticatedOn(st)
    ELSE LET r == OnAddStaffToCourse(st, c, t)
         IN IF r.err # "nil" THEN Reply(r.st, "Internal", NoValue, <<"AddStaffToCourse">>)
            ELSE Reply(r.st, "OK", NoValue, <<"AddStaffToCourse">>)

OnSvcRemoveStaffFromCourse(st, token, c, t) ==
    IF VerifyToken(token) # "nil" THEN UnauthenticatedOn(st)
    ELSE LET r == OnRemoveStaffFromCourse(st, c, t)
         IN IF r.err # "nil"
            THEN Reply(r.st, "Internal", NoValue, <<"RemoveStaffFromCourse">>)
            ELSE Reply(r.st, "OK", NoValue, <<"RemoveStaffFromCourse">>)

OnSvcGetCourseStudents(st, token, c) ==
    IF VerifyToken(token) # "nil" THEN UnauthenticatedOn(st)
    ELSE LET r == OnGetCourseStudents(st, c)
         IN IF r.err # "nil" THEN Reply(r.st, "NotFound", NoValue, <<"GetCourseStudents">>)
            ELSE Reply(r.st, "OK", r.ret, <<"GetCourseStudents">>)

OnSvcGetCourseStaff(st, token, c) ==
    IF VerifyToken(token) # "nil" THEN UnauthenticatedOn(st)
    ELSE LET r == OnGetCourseStaff(st, c)
         IN IF r.err # "nil" THEN Reply(r.st, "NotFound", NoValue, <<"GetCourseStaff">>)
            ELSE Reply(r.st, "OK", r.ret, <<"GetCourseStaff">>)

OnSvcGetStudentCourses(st, token, s) ==
    IF VerifyToken(token) # "nil" THEN UnauthenticatedOn(st)
    ELSE LET r == OnGetStudentCourses(st, s)
         IN IF r.err # "nil" THEN Reply(r.st, "NotFound", NoValue, <<"GetStudentCourses">>)
            ELSE Reply(r.st, "OK", r.ret, <<"GetStudentCourses">>)

OnSvcGetStaffCourses(st, token, t) ==
    IF VerifyToken(token) # "nil" THEN UnauthenticatedOn(st)
    ELSE LET r == OnGetStaffCourses(st, t)
         IN IF r.err # "nil" THEN Reply(r.st, "NotFound", NoValue, <<"GetStaffCourses">>)
            ELSE Reply(r.st, "OK", r.ret, <<"GetStaffCourses">>)

\* The response is the empty AddAnnouncementResponse{}.
OnSvcAddAnnouncementToCourse(st, token, c, a) ==
    IF VerifyToken(token) # "nil" THEN UnauthenticatedOn(st)
    ELSE LET r == OnAddAnnouncement(st, [CourseID |-> c, Announcement |-> a])
         IN IF r.err # "nil" THEN Reply(r.st, "Internal", NoValue, <<"AddAnnouncement">>)
            ELSE Reply(r.st, "OK", NoValue, <<"AddAnnouncement">>)

\* The cpb.Announcement the handler builds from a stored Announcement: the id, the
\* title and the content; the course id is left out.
PbAnnouncement(a) ==
    [AnnouncementID |-> a.AnnouncementID, AnnouncementTitle |-> a.Title,
     AnnouncementContent |-> a.Content]

\* The announcements of the response: one per element of the slice the MockDatabase
\* returned, in its order, or one per row the Database returned.
PbAnnouncements(list) ==
    IF IsMock THEN [i \in DOMAIN list |-> PbAnnouncement(list[i])]
    ELSE [v \in {PbAnnouncement(row) : row \in DOMAIN list} |->
            SumCopies(list, {row \in DOMAIN list : PbAnnouncement(row) = v})]

OnSvcGetCourseAnnouncements(st, token, c) ==
    IF VerifyToken(token) # "nil" THEN UnauthenticatedOn(st)
    ELSE LET r == OnGetAnnouncements(st, c)
         IN IF r.err # "nil" THEN Reply(r.st, "NotFound", NoValue, <<"GetAnnouncements">>)
            ELSE Reply(r.st, "OK", PbAnnouncements(r.ret), <<"GetAnnouncements">>)

OnSvcRemoveAnnouncementFromCourse(st, token, c, a) ==
    IF VerifyToken(token) # "nil" THEN UnauthenticatedOn(st)
    ELSE LET r == OnRemoveAnnouncement(st, c, a)
         IN IF r.err # "nil" THEN Reply(r.st, "Internal", NoValue, <<"RemoveAnnouncement">>)
            ELSE Reply(r.st, "OK", NoValue, <<"RemoveAnnouncement">>)

\* SvcX(token, ...): the handler serving a request on the store as it is now.
SvcGetCourse(token, c) == OnSvcGetCourse(Store, token, c)
SvcCreateCourse(token, course) == OnSvcCreateCourse(Store, token, course)
SvcUpdateCourse(token, course) == OnSvcUpdateCourse(Store, token, course)
SvcDeleteCourse(token, c) == OnSvcDeleteCourse(Store, token, c)
SvcAddStudentToCourse(token, c, s) == OnSvcAddStudentToCourse(Store, token, c, s)
SvcRemoveStudentFromCourse(token, c, s) == OnSvcRemoveStudentFromCourse(Store, token, c, s)
SvcAddStaffToCourse(token, c, t) == OnSvcAddStaffToCourse(Store, token, c, t)
SvcRemoveStaffFromCourse(token, c, t) == OnSvcRemoveStaffFromCourse(Store, token, c, t)
SvcGetCourseStudents(token, c) == OnSvcGetCourseStudents(Store, token, c)
SvcGetCourseStaff(token, c) == OnSvcGetCourseStaff(Store, token, c)
SvcGetStudentCourses(token, s) == OnSvcGetStudentCourses(Store, token, s)
SvcGetStaffCourses(token, t) == OnSvcGetStaffCourses(Store, token, t)
SvcAddAnnouncementToCourse(token, c, a) == OnSvcAddAnnouncementToCourse(Store, token, c, a)
SvcGetCourseAnnouncements(token, c) == OnSvcGetCourseAnnouncements(Store, token, c)
SvcRemoveAnnouncementFromCourse(token, c, a) == OnSvcRemoveAnnouncementFromCourse(Store, token, c, a)

\* The cpb.Course messages the RPCs (and the paired calls of PairSpec) are made with:
\* full ones, one with every field but
\* the id empty, one without an id, and a request without a course.
RpcCourseMsgs ==
    {m \in CourseMsgs :
        \/ m.CourseName # "" /\ m.Semester # "" /\ m.Description # ""
        \/ m.CourseName = "" /\ m.Semester = "" /\ m.Description = ""}
    \cup {NilCourse}

\* An RPC served by its handler in one step.  The handlers of UpdateCourse and
\* DeleteCourse are one step on a MockDatabase, and on a Database when they return
\* before the call of the store; beyond that they are RpcUpdateCourseCall and
\* RpcDeleteCourseCall.
RpcGetCourse(token, c) ==
    /\ Commit(SvcGetCourse(token, c).st)
    /\ UNCHANGED <<backend, claims, concVars>>
RpcCreateCourse(token, course) ==
    /\ Commit(SvcCreateCourse(token, course).st)
    /\ UNCHANGED <<backend, claims, concVars>>
RpcUpdateCourse(token, course) ==
    /\ IsMock \/ SvcUpdateCourse(token, course).calls = <<>>
    /\ Commit(SvcUpdateCourse(token, course).st)
    /\ UNCHANGED <<backend, claims, concVars>>
RpcDeleteCourse(token, c) ==
    /\ IsMock \/ SvcDeleteCourse(token, c).calls = <<>>
    /\ Commit(SvcDeleteCourse(token, c).st)
    /\ UNCHANGED <<backend, claims, concVars>>
RpcAddStudentToCourse(token, c, s) ==
    /\ StoreSize < RowBound
    /\ Commit(SvcAddStudentToCourse(token, c, s).st)
    /\ UNCHANGED <<backend, claims, concVars>>
RpcRemoveStudentFromCourse(token, c, s) ==
    /\ Commit(SvcRemoveStudentFromCourse(token, c, s).st)
    /\ UNCHANGED <<backend, claims, concVars>>
RpcAddStaffToCourse(token, c, t) ==
    /\ StoreSize < RowBound
    /\ Commit(SvcAddStaffToCourse(token, c, t).st)
    /\ UNCHANGED <<backend, claims, concVars>>
RpcRemoveStaffFromCourse(token, c, t) ==
    /\ Commit(SvcRemoveStaffFromCourse(token, c, t).st)
    /\ UNCHANGED <<backend, claims, concVars>>
RpcGetCourseStudents(token, c) ==
    /\ Commit(SvcGetCourseStudents(token, c).st)
    /\ UNCHANGED <<backend, claims, concVars>>
RpcGetCourseStaff(token, c) ==
    /\ Commit(SvcGetCourseStaff(token, c).st)
    /\ UNCHANGED <<backend, claims, concVars>>
RpcGetStudentCourses(token, s) ==
    /\ Commit(SvcGetStudentCourses(token, s).st)
    /\ UNCHANGED <<backend, claims, concVars>>
RpcGetStaffCourses(token, t) ==
    /\ Commit(SvcGetStaffCourses(token, t).st)
    /\ UNCHANGED <<backend, claims, concVars>>
RpcAddAnnouncementToCourse(token, c, a) ==
    /\ StoreSize < RowBound
    /\ Commit(SvcAddAnnouncementToCourse(token, c, a).st)
    /\ UNCHANGED <<backend, claims, concVars>>
RpcGetCourseAnnouncements(token, c) ==
    /\ Commit(SvcGetCourseAnnouncements(token, c).st)
    /\ UNCHANGED <<backend, claims, concVars>>
RpcRemoveAnnouncementFromCourse(token, c, a) ==
    /\ Commit(SvcRemoveAnnouncementFromCourse(token, c, a).st)
    /\ UNCHANGED <<backend, claims, concVars>>

\* The server as main builds it (no Claims) or as startTestServer does (MockClaims).
SvcInit ==
    /\ backend \in {"Database", "MockDatabase"}
    /\ courses = NewMockDatabase.courses
    /\ courseStudents = NewMockDatabase.courseStudents
    /\ courseStaff = NewMockDatabase.courseStaff
    /\ studentCourses = NewMockDatabase.studentCourses
    /\ staffCourses = NewMockDatabase.staffCourses
    /\ announcements = NewMockDatabase.announcements
    /\ tblCourses = NewDatabase.tblCourses
    /\ tblCourseStudent = NewDatabase.tblCourseStudent
    /\ tblCourseStaff = NewDatabase.tblCourseStaff
    /\ tblAnnouncements = NewDatabase.tblAnnouncements
    /\ claims \in BOOLEAN
    /\ threads = NoThreads
    /\ mutex = Unlocked

\* The RPCs that are one step.
RpcStepNext ==
    \E token \in Tokens :
        \/ \E c \in CourseIDs : RpcGetCourse(token, c)
        \/ \E course \in RpcCourseMsgs : RpcCreateCourse(token, course)
        \/ \E course \in RpcCourseMsgs : RpcUpdateCourse(token, course)
        \/ \E c \in CourseIDs : RpcDeleteCourse(token, c)
        \/ \E c \in CourseIDs, s \in StudentIDs : RpcAddStudentToCourse(token, c, s)
        \/ \E c \in CourseIDs, s \in StudentIDs : RpcRemoveStudentFromCourse(token, c, s)
        \/ \E c \in CourseIDs, t \in StaffIDs : RpcAddStaffToCourse(token, c, t)
        \/ \E c \in CourseIDs, t \in StaffIDs : RpcRemoveStaffFromCourse(token, c, t)
        \/ \E c \in CourseIDs : RpcGetCourseStudents(token, c)
        \/ \E c \in CourseIDs : RpcGetCourseStaff(token, c)
        \/ \E s \in StudentIDs : RpcGetStudentCourses(token, s)
        \/ \E t \in StaffIDs : RpcGetStaffCourses(token, t)
        \/ \E c \in CourseIDs, a \in AnnouncementMsgs :
                RpcAddAnnouncementToCourse(token, c, a)
        \/ \E c \in CourseIDs : RpcGetCourseAnnouncements(token, c)
        \/ \E c \in CourseIDs, a \in AnnouncementIDs :
                RpcRemoveAnnouncementFromCourse(token, c, a)

----------------------------------------------------------------------------
\* The two stores side by side: PairSpec has one caller, which makes every
\* DBInterface call on a MockDatabase and on a Database that both start empty
\* (backend = "Both") and waits for both to return before its next call.  The calls
\* of UpdateCourse and DeleteCourse are BothUpdateCourse and BothDeleteCourse, after
\* the statements of the Database.

CommitBoth(m, d) ==
    /\ courses' = m.courses
    /\ courseStudents' = m.courseStudents
    /\ courseStaff' = m.courseStaff
    /\ studentCourses' = m.studentCourses
    /\ staffCourses' = m.staffCourses
    /\ announcements' = m.announcements
    /\ tblCourses' = d.tblCourses
    /\ tblCourseStudent' = d.tblCourseStudent
    /\ tblCourseStaff' = d.tblCourseStaff
    /\ tblAnnouncements' = d.tblAnnouncements

\* Entries held by the two stores; an add is taken while both hold fewer than MaxRows.
MockSize ==
    SumLen(courseStudents, DOMAIN courseStudents) + SumLen(courseStaff, DOMAIN courseStaff)
    + SumLen(announcements, DOMAIN announcements)
DbSize == RowCount(tblCourseStudent) + RowCount(tblCourseStaff) + RowCount(tblAnnouncements)

BothAddCourse(course) ==
    /\ InFlight = {}
    /\ CommitBoth(MockAddCourse(MockStore, course).st, DbAddCourse(DbStore, course).st)
    /\ UNCHANGED <<backend, claims, concVars>>
BothGetCourse(c) ==
    /\ InFlight = {}
    /\ CommitBoth(MockGetCourse(MockStore, c).st, DbGetCourse(DbStore, c).st)
    /\ UNCHANGED <<backend, claims, concVars>>
BothAddStudentToCourse(c, s) ==
    /\ InFlight = {}
    /\ MockSize < MaxRows /\ DbSize < MaxRows
    /\ CommitBoth(MockAddStudentToCourse(MockStore, c, s).st, DbAddStudentToCourse(DbStore, c, s).st)
    /\ UNCHANGED <<backend, claims, concVars>>
BothRemoveStudentFromCourse(c, s) ==
    /\ InFlight = {}
    /\ CommitBoth(MockRemoveStudentFromCourse(MockStore, c, s).st, DbRemoveStudentFromCourse(DbStore, c, s).st)
    /\ UNCHANGED <<backend, claims, concVars>>
BothAddStaffToCourse(c, t) ==
    /\ InFlight = {}
    /\ MockSize < MaxRows /\ DbSize < MaxRows
    /\ CommitBoth(MockAddStaffToCourse(MockStore, c, t).st, DbAddStaffToCourse(DbStore, c, t).st)
    /\ UNCHANGED <<backend, claims, concVars>>
BothRemoveStaffFromCourse(c, t) ==
    /\ InFlight = {}
    /\ CommitBoth(MockRemoveStaffFromCourse(MockStore, c, t).st, DbRemoveStaffFromCourse(DbStore, c, t).st)
    /\ UNCHANGED <<backend, claims, concVars>>
BothGetCourseStudents(c) ==
    /\ InFlight = {}
    /\ CommitBoth(MockGetCourseStudents(MockStore, c).st, DbGetCourseStudents(DbStore, c).st)
    /\ UNCHANGED <<backend, claims, concVars>>
BothGetCourseStaff(c) ==
    /\ InFlight = {}
    /\ CommitBoth(MockGetCourseStaff(MockStore, c).st, DbGetCourseStaff(DbStore, c).st)
    /\ UNCHANGED <<backend, claims, concVars>>
BothGetStudentCourses(s) ==
    /\ InFlight = {}
    /\ CommitBoth(MockGetStudentCourses(MockStore, s).st, DbGetStudentCourses(DbStore, s).st)
    /\ UNCHANGED <<backend, claims, concVars>>
BothGetStaffCourses(t) ==
    /\ InFlight = {}
    /\ CommitBoth(MockGetStaffCourses(MockStore, t).st, DbGetStaffCourses(DbStore, t).st)
    /\ UNCHANGED <<backend, claims, concVars>>
BothAddAnnouncement(c, a) ==
    /\ InFlight = {}
    /\ MockSize < MaxRows /\ DbSize < MaxRows
    /\ CommitBoth(MockAddAnnouncement(MockStore, [CourseID |-> c, Announcement |-> a]).st, DbAddAnnouncement(DbStore, [CourseID |-> c, Announcement |-> a]).st)
    /\ UNCHANGED <<backend, claims, concVars>>
BothGetAnnouncements(c) ==
    /\ InFlight = {}
    /\ CommitBoth(MockGetAnnouncements(MockStore, c).st, DbGetAnnouncements(DbStore, c).st)
    /\ UNCHANGED <<backend, claims, concVars>>
BothRemoveAnnouncement(c, a) ==
    /\ InFlight = {}
    /\ CommitBoth(MockRemoveAnnouncement(MockStore, c, a).st, DbRemoveAnnouncement(DbStore, c, a).st)
    /\ UNCHANGED <<backend, claims, concVars>>

PairInit ==
    /\ backend = "Both"
    /\ courses = NewMockDatabase.courses
    /\ courseStudents = NewMockDatabase.courseStudents
    /\ courseStaff = NewMockDatabase.courseStaff
    /\ studentCourses = NewMockDatabase.studentCourses
    /\ staffCourses = NewMockDatabase.staffCourses
    /\ announcements = NewMockDatabase.announcements
    /\ tblCourses = NewDatabase.tblCourses
    /\ tblCourseStudent = NewDatabase.tblCourseStudent
    /\ tblCourseStaff = NewDatabase.tblCourseStaff
    /\ tblAnnouncements = NewDatabase.tblAnnouncements
    /\ claims = FALSE
    /\ threads = NoThreads
    /\ mutex = Unlocked


----------------------------------------------------------------------------
\* MockDatabase under concurrent callers (server/db.go).  Every method that touches
\* the maps takes m.mutex first and releases it on return (defer): Lock/Unlock in
\* the methods that write, RLock/RUnlock in the methods that only read.  A goroutine
\* is idle (outside every method), "locked" (past m.mutex.Lock(), body not yet run),
\* "cleanup" (inside DeleteCourse, before its clean-up loops) or "rlocked" (past
\* m.mutex.RLock(), body not yet run).  A call blocked in Lock or
\* RLock has done nothing yet: it is a step that is not enabled.

\* A call of a DBInterface method: its name and its arguments (the course message,
\* the announcement request, the first and the second id; NoMsg and NoArg where the
\* method has no such argument).
Call(op, course, req, a, b) == [op |-> op, course |-> course, req |-> req, a |-> a, b |-> b]
NoMsg == [none |-> TRUE]
NoArg == "-"

\* The methods that take m.mutex.Lock() and those that take m.mutex.RLock().
MockWriters == {"AddCourse", "UpdateCourse", "DeleteCourse", "AddStudentToCourse",
                "RemoveStudentFromCourse", "AddStaffToCourse", "RemoveStaffFromCourse",
                "AddAnnouncement", "RemoveAnnouncement"}
MockReaders == {"GetCourse", "GetCourseStudents", "GetCourseStaff", "GetStudentCourses",
                "GetStaffCourses", "GetAnnouncements"}

\* The calls the concurrent goroutines make.
LockCourseIDs == {"", "c1"}
LockCourseMsgs ==
    {NilCourse,
     [CourseID |-> "", CourseName |-> "n1", Semester |-> "f1", Description |-> "d1"],
     [CourseID |-> "c1", CourseName |-> "n1", Semester |-> "f1", Description |-> "d1"],
     [CourseID |-> "c1", CourseName |-> "n2", Semester |-> "", Description |-> ""]}
LockAnnouncementReqs ==
    [CourseID : LockCourseIDs,
     Announcement : [AnnouncementID : {"a1"}, AnnouncementTitle : {"ti"},
                     AnnouncementContent : {"", "x"}]]
LockCalls ==
    {Call(op, course, NoMsg, NoArg, NoArg) :
        op \in {"AddCourse", "UpdateCourse"}, course \in LockCourseMsgs}
    \cup {Call(op, NoMsg, NoMsg, c, NoArg) :
            op \in {"DeleteCourse", "GetCourse", "GetCourseStudents", "GetCourseStaff",
                    "GetAnnouncements"},
            c \in LockCourseIDs}
    \cup {Call(op, NoMsg, NoMsg, c, s) :
            op \in {"AddStudentToCourse", "RemoveStudentFromCourse"},
            c \in LockCourseIDs, s \in {"", "s1"}}
    \cup {Call(op, NoMsg, NoMsg, c, t) :
            op \in {"AddStaffToCourse", "RemoveStaffFromCourse"},
            c \in LockCourseIDs, t \in {"", "t1"}}
    \cup {Call("GetStudentCourses", NoMsg, NoMsg, s, NoArg) : s \in {"", "s1"}}
    \cup {Call("GetStaffCourses", NoMsg, NoMsg, t, NoArg) : t \in {"", "t1"}}
    \cup {Call("AddAnnouncement", NoMsg, req, NoArg, NoArg) : req \in LockAnnouncementReqs}
    \cup {Call("RemoveAnnouncement", NoMsg, NoMsg, c, a) : c \in LockCourseIDs, a \in {"", "a1"}}

\* The method a call names, run on the maps m.
MockApply(m, call) ==
    CASE call.op = "AddCourse" -> MockAddCourse(m, call.course)
      [] call.op = "GetCourse" -> MockGetCourse(m, call.a)
      [] call.op = "UpdateCourse" -> MockUpdateCourse(m, call.course)
      [] call.op = "DeleteCourse" -> MockDeleteCourse(m, call.a)
      [] call.op = "AddStudentToCourse" -> MockAddStudentToCourse(m, call.a, call.b)
      [] call.op = "RemoveStudentFromCourse" -> MockRemoveStudentFromCourse(m, call.a, call.b)
      [] call.op = "AddStaffToCourse" -> MockAddStaffToCourse(m, call.a, call.b)
      [] call.op = "RemoveStaffFromCourse" -> MockRemoveStaffFromCourse(m, call.a, call.b)
      [] call.op = "GetCourseStudents" -> MockGetCourseStudents(m, call.a)
      [] call.op = "GetCourseStaff" -> MockGetCourseStaff(m, call.a)
      [] call.op = "GetStudentCourses" -> MockGetStudentCourses(m, call.a)
      [] call.op = "GetStaffCourses" -> MockGetStaffCourses(m, call.a)
      [] call.op = "AddAnnouncement" -> MockAddAnnouncement(m, call.req)
      [] call.op = "GetAnnouncements" -> MockGetAnnouncements(m, call.a)
      [] call.op = "RemoveAnnouncement" -> MockRemoveAnnouncement(m, call.a, call.b)

\* The argument checks a method makes before it takes the mutex: a call that fails
\* one returns without having locked.  The four Add/Remove Student/Staff methods lock
\* first and check their arguments in the helper they call.
ReturnsBeforeLock(call) ==
    CASE call.op \in {"AddCourse", "UpdateCourse"} ->
            IF call.course = NilCourse THEN TRUE ELSE call.course.CourseID = ""
      [] call.op \in {"DeleteCourse", "GetCourse", "GetCourseStudents", "GetCourseStaff",
                      "GetStudentCourses", "GetStaffCourses", "GetAnnouncements"} ->
            call.a = ""
      [] call.op = "AddAnnouncement" ->
            call.req.CourseID = "" \/ call.req.Announcement.AnnouncementContent = ""
      [] call.op = "RemoveAnnouncement" -> call.a = "" \/ call.b = ""
      [] OTHER -> FALSE

\* sync.RWMutex: Lock returns when no goroutine holds the mutex in either mode,
\* RLock returns when no goroutine holds it for writing.
CanLock_ignoresReaders(mu) == mu.writer = NoWriter
CanLock_ignoresWriter(mu) == mu.readers = {}
CanLock(mu) == mu.writer = NoWriter /\ mu.readers = {}
CanRLock_ignoresWriter(mu) == TRUE
CanRLock(mu) == mu.writer = NoWriter

\* MockDatabase.DeleteCourse of an existing course, in the two parts of its body:
\* the four delete(...) calls on the maps keyed by course, then the two loops that
\* take the course out of every student's and every staff member's list.
deleteCourseEntries(m, courseID) ==
    [m EXCEPT !.courses = Del(@, courseID),
              !.courseStudents = Del(@, courseID),
              !.courseStaff = Del(@, courseID),
              !.announcements = Del(@, courseID)]
cleanUpAssociations(m, courseID) ==
    [m EXCEPT !.studentCourses = removeCourseFromAll(@, courseID),
              !.staffCourses = removeCourseFromAll(@, courseID)]

\* The call is a DeleteCourse that finds its course.
DeletesCourse(call) == call.op = "DeleteCourse" /\ call.a \in DOMAIN courses

\* The calls that append to a list (bounded by MaxRows).
Appends(call) == call.op \in {"AddStudentToCourse", "AddStaffToCourse", "AddAnnouncement"}

\* A method returns on its argument check, without locking.
MockReturnEarly(p, call) ==
    /\ threads[p] = Idle
    /\ ReturnsBeforeLock(call)
    /\ UNCHANGED vars

\* m.mutex.Lock() of a writing method returns.
MockLock(p, call) ==
    /\ threads[p] = Idle
    /\ call.op \in MockWriters
    /\ ~ReturnsBeforeLock(call)
    /\ Appends(call) => MockSize < MaxRows
    /\ CanLock(mutex)
    /\ mutex' = [mutex EXCEPT !.writer = p]
    /\ threads' = [threads EXCEPT ![p] = [pc |-> "locked", call |-> call]]
    /\ UNCHANGED <<backend, storeVars, claims>>

\* m.mutex.RLock() of a reading method returns.
MockRLock(p, call) ==
    /\ threads[p] = Idle
    /\ call.op \in MockReaders
    /\ ~ReturnsBeforeLock(call)
    /\ CanRLock(mutex)
    /\ mutex' = [mutex EXCEPT !.readers = @ \cup {p}]
    /\ threads' = [threads EXCEPT ![p] = [pc |-> "rlocked", call |-> call]]
    /\ UNCHANGED <<backend, storeVars, claims>>

\* The body of a writing method and its deferred m.mutex.Unlock().
MockRunLocked(p) ==
    /\ threads[p].pc = "locked"
    /\ ~DeletesCourse(threads[p].call)
    /\ Commit(MockApply(MockStore, threads[p].call).st)
    /\ mutex' = [mutex EXCEPT !.writer = NoWriter]
    /\ threads' = [threads EXCEPT ![p] = Idle]
    /\ UNCHANGED <<backend, claims>>

\* DeleteCourse under the lock: the deletes from the maps keyed by course.
MockDeleteCourseEntries(p) ==
    /\ threads[p].pc = "locked"
    /\ DeletesCourse(threads[p].call)
    /\ Commit(deleteCourseEntries(MockStore, threads[p].call.a))
    /\ threads' = [threads EXCEPT ![p] = [pc |-> "cleanup", call |-> threads[p].call]]
    /\ UNCHANGED <<backend, claims, mutex>>

\* DeleteCourse under the lock: the clean-up loops, and the deferred m.mutex.Unlock().
MockDeleteCourseCleanUp(p) ==
    /\ threads[p].pc = "cleanup"
    /\ Commit(cleanUpAssociations(MockStore, threads[p].call.a))
    /\ mutex' = [mutex EXCEPT !.writer = NoWriter]
    /\ threads' = [threads EXCEPT ![p] = Idle]
    /\ UNCHANGED <<backend, claims>>

\* The body of a reading method and its deferred m.mutex.RUnlock().
MockRunRLocked(p) ==
    /\ threads[p].pc = "rlocked"
    /\ Commit(MockApply(MockStore, threads[p].call).st)
    /\ mutex' = [mutex EXCEPT !.readers = @ \ {p}]
    /\ threads' = [threads EXCEPT ![p] = Idle]
    /\ UNCHANGED <<backend, claims>>

LockInit ==
    /\ backend = "MockDatabase"
    /\ courses = NewMockDatabase.courses
    /\ courseStudents = NewMockDatabase.courseStudents
    /\ courseStaff = NewMockDatabase.courseStaff
    /\ studentCourses = NewMockDatabase.studentCourses
    /\ staffCourses = NewMockDatabase.staffCourses
    /\ announcements = NewMockDatabase.announcements
    /\ tblCourses = NewDatabase.tblCourses
    /\ tblCourseStudent = NewDatabase.tblCourseStudent
    /\ tblCourseStaff = NewDatabase.tblCourseStaff
    /\ tblAnnouncements = NewDatabase.tblAnnouncements
    /\ claims = FALSE
    /\ threads = NoThreads
    /\ mutex = Unlocked

LockNext ==
    \/ \E p \in Threads, call \in LockCalls : MockReturnEarly(p, call)
    \/ \E p \in Threads, call \in LockCalls : MockLock(p, call)
    \/ \E p \in Threads, call \in LockCalls : MockRLock(p, call)
    \/ \E p \in Threads : MockRunLocked(p)
    \/ \E p \in Threads : MockDeleteCourseEntries(p)
    \/ \E p \in Threads : MockDeleteCourseCleanUp(p)
    \/ \E p \in Threads : MockRunRLocked(p)

LockSpec == LockInit /\ [][LockNext]_vars

----------------------------------------------------------------------------
\* Database under concurrent callers (server/db.go).  The Database methods take no
\* lock and open no transaction: each d.db.New...().Exec/Scan is one statement, which
\* the SQL server runs atomically, and the statements of concurrent calls interleave.
\* A method of one statement is one step.  DeleteCourse is three statements and
\* UpdateCourse is two (the SELECT of GetCourse, then the UPDATE); a goroutine between
\* two statements of a call records where it is and what it holds in local variables.

\* DeleteCourse, first statement: DELETE FROM courses WHERE course_id = ?, and the
\* return on RowsAffected() = 0.
DbDeleteCourseRow_cascades(d, courseID) ==
    IF courseID = "" THEN Result(d, "ErrCourseIDEmpty", NoValue)
    ELSE IF courseID \notin DOMAIN d.tblCourses
         THEN Result(d, "ErrCourseNotFound", NoValue)
    ELSE Result([d EXCEPT !.tblCourses = Del(@, courseID),
                          !.tblCourseStudent = DeleteWhere(@, {r \in DOMAIN @ : r[1] = courseID}),
                          !.tblCourseStaff = DeleteWhere(@, {r \in DOMAIN @ : r[1] = courseID})],
                "nil", NoValue)
DbDeleteCourseRow(d, courseID) ==
    IF courseID = "" THEN Result(d, "ErrCourseIDEmpty", NoValue)
    ELSE IF courseID \notin DOMAIN d.tblCourses
         THEN Result(d, "ErrCourseNotFound", NoValue)
    ELSE Result([d EXCEPT !.tblCourses = Del(@, courseID)], "nil", NoValue)

\* DeleteCourse, second statement: DELETE FROM course_student WHERE course_id = ?.
DbDeleteCourseStudents(d, courseID) ==
    Result([d EXCEPT !.tblCourseStudent = DeleteWhere(@, {r \in DOMAIN @ : r[1] = courseID})],
           "nil", NoValue)

\* DeleteCourse, third statement: DELETE FROM course_staff WHERE course_id = ?.
DbDeleteCourseStaff(d, courseID) ==
    Result([d EXCEPT !.tblCourseStaff = DeleteWhere(@, {r \in DOMAIN @ : r[1] = courseID})],
           "nil", NoValue)

\* UpdateCourse, up to and including d.GetCourse: the argument checks and the SELECT.
\* ret is existingCourse, the row as read.
DbUpdateCourseRead(d, course) ==
    IF course = NilCourse THEN Result(d, "ErrCourseNil", NoValue)
    ELSE IF course.CourseID = "" THEN Result(d, "ErrCourseIDEmpty", NoValue)
    ELSE DbGetCourse(d, course.CourseID)

\* UpdateCourse: the three updateField calls on existingCourse.
UpdatedCourse(existingCourse, course) ==
    [existingCourse EXCEPT !.CourseName = updateField(@, course.CourseName),
                           !.Semester = updateField(@, course.Semester),
                           !.Description = updateField(@, course.Description)]

\* UpdateCourse, the UPDATE: NewUpdate().Model(existingCourse).WherePK() sets every
\* column of the row with existingCourse's key to existingCourse's fields, which
\* are the fields read earlier with the three updateField calls applied.  It
\* matches no row when the course was deleted meanwhile, which is no error (the
\* result's RowsAffected is not read).
DbUpdateCourseWrite_keepsNewerRow(d, existingCourse) ==
    Result(d, "nil", existingCourse)
DbUpdateCourseWrite(d, existingCourse) ==
    LET id == existingCourse.CourseID
    IN IF id \in DOMAIN d.tblCourses
       THEN Result([d EXCEPT !.tblCourses = Put(@, id, existingCourse)], "nil", existingCourse)
       ELSE Result(d, "nil", existingCourse)

\* A statement can fail in the driver (connection lost, context cancelled): Exec
\* returns an error and the statement changed nothing.  failing names the statement
\* of DeleteCourse that fails, if any; the method wraps the error and returns at once.
DeleteStatements == {"none", "course", "students", "staff"}
DbDeleteCourseFailing_reportsSuccess(d, courseID, failing) ==
    LET first == DbDeleteCourseRow(d, courseID)
        second == DbDeleteCourseStudents(first.st, courseID)
        third == DbDeleteCourseStaff(second.st, courseID)
    IN IF courseID = "" THEN Result(d, "ErrCourseIDEmpty", NoValue)
       ELSE IF failing = "course" THEN Result(d, "ErrExec", NoValue)
       ELSE IF first.err # "nil" THEN first
       ELSE IF failing = "students" THEN Result(first.st, "nil", NoValue)
       ELSE IF failing = "staff" THEN Result(second.st, "nil", NoValue)
       ELSE third
DbDeleteCourseFailing_rollsBack(d, courseID, failing) ==
    LET first == DbDeleteCourseRow(d, courseID)
        second == DbDeleteCourseStudents(first.st, courseID)
        third == DbDeleteCourseStaff(second.st, courseID)
    IN IF courseID = "" THEN Result(d, "ErrCourseIDEmpty", NoValue)
       ELSE IF failing = "course" THEN Result(d, "ErrExec", NoValue)
       ELSE IF first.err # "nil" THEN first
       ELSE IF failing \in {"students", "staff"} THEN Result(d, "ErrExec", NoValue)
       ELSE third
DbDeleteCourseFailing(d, courseID, failing) ==
    LET first == DbDeleteCourseRow(d, courseID)
        second == DbDeleteCourseStudents(first.st, courseID)
        third == DbDeleteCourseStaff(second.st, courseID)
    IN IF courseID = "" THEN Result(d, "ErrCourseIDEmpty", NoValue)
       ELSE IF failing = "course" THEN Result(d, "ErrExec", NoValue)
       ELSE IF first.err # "nil" THEN first
       ELSE IF failing = "students" THEN Result(first.st, "ErrExec", NoValue)
       ELSE IF failing = "staff" THEN Result(second.st, "ErrExec", NoValue)
       ELSE third

\* CoursesServer.DeleteCourse over the Database, with the failing statement.
SvcDeleteCourseFailing(d, token, c, failing) ==
    IF VerifyToken(token) # "nil" THEN UnauthenticatedOn(d)
    ELSE LET r == DbDeleteCourseFailing(d, c, failing)
         IN IF r.err # "nil" THEN Reply(r.st, "Internal", NoValue, <<"DeleteCourse">>)
            ELSE Reply(r.st, "OK", NoValue, <<"DeleteCourse">>)

\* The calls the concurrent goroutines make.
DcCourseIDs == {"", "c1"}
DcNewCourses ==
    {[CourseID |-> "c1", CourseName |-> "n1", Semester |-> "", Description |-> ""]}
DcUpdates ==
    {NilCourse,
     [CourseID |-> "c1", CourseName |-> "n2", Semester |-> "", Description |-> ""],
     [CourseID |-> "c1", CourseName |-> "", Semester |-> "f1", Description |-> ""]}

\* The Database methods of one statement.
DcCalls ==
    {Call("AddCourse", course, NoMsg, NoArg, NoArg) : course \in DcNewCourses}
    \cup {Call(op, NoMsg, NoMsg, c, NoArg) :
            op \in {"GetCourse", "GetCourseStudents", "GetCourseStaff"}, c \in DcCourseIDs}
    \cup {Call(op, NoMsg, NoMsg, "c1", "s1") :
            op \in {"AddStudentToCourse", "RemoveStudentFromCourse"}}
    \cup {Call(op, NoMsg, NoMsg, "c1", "t1") :
            op \in {"AddStaffToCourse", "RemoveStaffFromCourse"}}
    \cup {Call("GetStudentCourses", NoMsg, NoMsg, "s1", NoArg),
          Call("GetStaffCourses", NoMsg, NoMsg, "t1", NoArg)}

\* The method a call names, run on the tables d.
DbApply(d, call) ==
    CASE call.op = "AddCourse" -> DbAddCourse(d, call.course)
      [] call.op = "GetCourse" -> DbGetCourse(d, call.a)
      [] call.op = "AddStudentToCourse" -> DbAddStudentToCourse(d, call.a, call.b)
      [] call.op = "RemoveStudentFromCourse" -> DbRemoveStudentFromCourse(d, call.a, call.b)
      [] call.op = "AddStaffToCourse" -> DbAddStaffToCourse(d, call.a, call.b)
      [] call.op = "RemoveStaffFromCourse" -> DbRemoveStaffFromCourse(d, call.a, call.b)
      [] call.op = "GetCourseStudents" -> DbGetCourseStudents(d, call.a)
      [] call.op = "GetCourseStaff" -> DbGetCourseStaff(d, call.a)
      [] call.op = "GetStudentCourses" -> DbGetStudentCourses(d, call.a)
      [] call.op = "GetStaffCourses" -> DbGetStaffCourses(d, call.a)

\* A goroutine calls a method of one statement.
DcStatement(p, call) ==
    /\ threads[p] = Idle
    /\ Appends(call) => DbSize < MaxRows
    /\ Commit(DbApply(DbStore, call).st)
    /\ UNCHANGED <<backend, claims, concVars>>

\* What a goroutine in DeleteCourse(c) carries after its first statement: where it
\* is and the course id.  associated is no variable of the method: it records that
\* the course had a course_student and a course_staff row when the method was called.
DeletePending(d, c) ==
    [pc |-> "deleteStudents", courseID |-> c,
     associated |-> /\ \E r \in DOMAIN d.tblCourseStudent : r[1] = c
                    /\ \E r \in DOMAIN d.tblCourseStaff : r[1] = c]

\* DeleteCourse(c) up to its first statement; it goes on when the statement
\* deleted a row.
DcDeleteCourseRow(p, c) ==
    /\ threads[p] = Idle
    /\ LET r == DbDeleteCourseRow(DbStore, c)
       IN /\ Commit(r.st)
          /\ threads' = [threads EXCEPT ![p] =
                            IF r.err = "nil" THEN DeletePending(DbStore, c) ELSE Idle]
    /\ UNCHANGED <<backend, claims, mutex>>

DcDeleteCourseStudents(p) ==
    /\ threads[p].pc = "deleteStudents"
    /\ Commit(DbDeleteCourseStudents(DbStore, threads[p].courseID).st)
    /\ threads' = [threads EXCEPT ![p] = [threads[p] EXCEPT !.pc = "deleteStaff"]]
    /\ UNCHANGED <<backend, claims, mutex>>

DcDeleteCourseStaff(p) ==
    /\ threads[p].pc = "deleteStaff"
    /\ Commit(DbDeleteCourseStaff(DbStore, threads[p].courseID).st)
    /\ threads' = [threads EXCEPT ![p] = Idle]
    /\ UNCHANGED <<backend, claims, mutex>>

\* UpdateCourse(course) up to its UPDATE; it goes on when d.GetCourse found the
\* row.  The goroutine holds existingCourse, the row as read with the message's
\* non-empty fields put in.
DcUpdateCourseRead(p, course) ==
    /\ threads[p] = Idle
    /\ LET r == DbUpdateCourseRead(DbStore, course)
       IN /\ Commit(r.st)
          /\ threads' = [threads EXCEPT ![p] =
                            IF r.err = "nil"
                            THEN [pc |-> "update",
                                  existingCourse |-> UpdatedCourse(r.ret, course)]
                            ELSE Idle]
    /\ UNCHANGED <<backend, claims, mutex>>

DcUpdateCourseWrite(p) ==
    /\ threads[p].pc = "update"
    /\ Commit(DbUpdateCourseWrite(DbStore, threads[p].existingCourse).st)
    /\ threads' = [threads EXCEPT ![p] = Idle]
    /\ UNCHANGED <<backend, claims, mutex>>

\* The next statement of a goroutine inside DeleteCourse or UpdateCourse fails: the
\* method returns the error; what its earlier statements did stays.
DcStatementFails(p) ==
    /\ threads[p] # Idle
    /\ threads' = [threads EXCEPT ![p] = Idle]
    /\ UNCHANGED <<backend, storeVars, claims, mutex>>

DbConcInit ==
    /\ backend = "Database"
    /\ courses = NewMockDatabase.courses
    /\ courseStudents = NewMockDatabase.courseStudents
    /\ courseStaff = NewMockDatabase.courseStaff
    /\ studentCourses = NewMockDatabase.studentCourses
    /\ staffCourses = NewMockDatabase.staffCourses
    /\ announcements = NewMockDatabase.announcements
    /\ tblCourses = NewDatabase.tblCourses
    /\ tblCourseStudent = NewDatabase.tblCourseStudent
    /\ tblCourseStaff = NewDatabase.tblCourseStaff
    /\ tblAnnouncements = NewDatabase.tblAnnouncements
    /\ claims = FALSE
    /\ threads = NoThreads
    /\ mutex = Unlocked

DbConcNext ==
    \/ \E p \in Threads, call \in DcCalls : DcStatement(p, call)
    \/ \E p \in Threads, c \in DcCourseIDs : DcDeleteCourseRow(p, c)
    \/ \E p \in Threads : DcDeleteCourseStudents(p)
    \/ \E p \in Threads : DcDeleteCourseStaff(p)
    \/ \E p \in Threads, course \in DcUpdates : DcUpdateCourseRead(p, course)
    \/ \E p \in Threads : DcUpdateCourseWrite(p)
    \/ \E p \in Threads : DcStatementFails(p)

DbConcSpec == DbConcInit /\ [][DbConcNext]_vars

----------------------------------------------------------------------------
\* The program with Database.UpdateCourse and Database.DeleteCourse run statement by
\* statement.  A goroutine's call is its first statement; the goroutine is then in
\* flight (threads[p] holds what it carries to its next statement), and every step
\* of every other caller may fall before its next statement, which may also fail.

\* A call of several statements is made on tables within MaxRowsInFlight.
MayStart == StoreSize <= MaxRowsInFlight

\* The goroutines are interchangeable: a call is taken by the first idle one.
FirstIdle(p) == threads[p] = Idle /\ \A q \in Threads : q < p => threads[q] # Idle

\* Database.DeleteCourse(c) called by goroutine p: the DELETE of the course row.
DbDeleteCourseCall(p, c) ==
    /\ backend = "Database"
    /\ MayStart
    /\ FirstIdle(p)
    /\ DcDeleteCourseRow(p, c)

\* Database.UpdateCourse(course) called by goroutine p: the SELECT of d.GetCourse.
DbUpdateCourseCall(p, course) ==
    /\ backend = "Database"
    /\ MayStart
    /\ FirstIdle(p)
    /\ DcUpdateCourseRead(p, course)

Next ==
    \/ StepNext
    \/ \E p \in Threads, c \in CourseIDs : DbDeleteCourseCall(p, c)
    \/ \E p \in Threads, course \in CourseMsgs \cup {NilCourse} :
            DbUpdateCourseCall(p, course)
    \/ \E p \in Threads : DcDeleteCourseStudents(p)
    \/ \E p \in Threads : DcDeleteCourseStaff(p)
    \/ \E p \in Threads : DcUpdateCourseWrite(p)
    \/ \E p \in Threads : DcStatementFails(p)

Spec == Init /\ [][Next]_vars

\* The handler of DeleteCourse on a Database, in goroutine p: VerifyToken passes and
\* s.db.DeleteCourse runs its first statement.  What the handler replies follows
\* from the error the store call returns in the end.
RpcDeleteCourseCall(p, token, c) ==
    /\ VerifyToken(token) = "nil"
    /\ DbDeleteCourseCall(p, c)

\* The handler of UpdateCourse on a Database, in goroutine p.
RpcUpdateCourseCall(p, token, course) ==
    /\ VerifyToken(token) = "nil"
    /\ DbUpdateCourseCall(p, course)

SvcNext ==
    \/ RpcStepNext
    \/ \E p \in Threads, token \in Tokens, c \in CourseIDs :
            RpcDeleteCourseCall(p, token, c)
    \/ \E p \in Threads, token \in Tokens, course \in RpcCourseMsgs :
            RpcUpdateCourseCall(p, token, course)
    \/ \E p \in Threads : DcDeleteCourseStudents(p)
    \/ \E p \in Threads : DcDeleteCourseStaff(p)
    \/ \E p \in Threads : DcUpdateCourseWrite(p)
    \/ \E p \in Threads : DcStatementFails(p)

SvcSpec == SvcInit /\ [][SvcNext]_vars

\* DeleteCourse(c) on the two stores: the MockDatabase's whole method and the first
\* statement of the Database's, whose later statements follow as steps of p.
BothDeleteCourse(p, c) ==
    /\ InFlight = {}
    /\ FirstIdle(p)
    /\ LET r == DbDeleteCourseRow(DbStore, c)
       IN /\ CommitBoth(MockDeleteCourse(MockStore, c).st, r.st)
          /\ threads' = [threads EXCEPT ![p] =
                            IF r.err = "nil" THEN DeletePending(DbStore, c) ELSE Idle]
    /\ UNCHANGED <<backend, claims, mutex>>

\* UpdateCourse(course) on the two stores: the MockDatabase's whole method and the
\* SELECT of the Database's, whose UPDATE follows as a step of p.
BothUpdateCourse(p, course) ==
    /\ InFlight = {}
    /\ FirstIdle(p)
    /\ LET r == DbUpdateCourseRead(DbStore, course)
       IN /\ CommitBoth(MockUpdateCourse(MockStore, course).st, r.st)
          /\ threads' = [threads EXCEPT ![p] =
                            IF r.err = "nil"
                            THEN [pc |-> "update",
                                  existingCourse |-> UpdatedCourse(r.ret, course)]
                            ELSE Idle]
    /\ UNCHANGED <<backend, claims, mutex>>

PairNext ==
    \/ \E course \in RpcCourseMsgs : BothAddCourse(course)
    \/ \E c \in CourseIDs : BothGetCourse(c)
    \/ \E p \in Threads, course \in RpcCourseMsgs : BothUpdateCourse(p, course)
    \/ \E p \in Threads, c \in CourseIDs : BothDeleteCourse(p, c)
    \/ \E c \in CourseIDs, s \in StudentIDs : BothAddStudentToCourse(c, s)
    \/ \E c \in CourseIDs, s \in StudentIDs : BothRemoveStudentFromCourse(c, s)
    \/ \E c \in CourseIDs, t \in StaffIDs : BothAddStaffToCourse(c, t)
    \/ \E c \in CourseIDs, t \in StaffIDs : BothRemoveStaffFromCourse(c, t)
    \/ \E c \in CourseIDs : BothGetCourseStudents(c)
    \/ \E c \in CourseIDs : BothGetCourseStaff(c)
    \/ \E s \in StudentIDs : BothGetStudentCourses(s)
    \/ \E t \in StaffIDs : BothGetStaffCourses(t)
    \/ \E c \in CourseIDs, a \in AnnouncementMsgs : BothAddAnnouncement(c, a)
    \/ \E c \in CourseIDs : BothGetAnnouncements(c)
    \/ \E c \in CourseIDs, a \in AnnouncementIDs : BothRemoveAnnouncement(c, a)
    \/ \E p \in Threads : DcDeleteCourseStudents(p)
    \/ \E p \in Threads : DcDeleteCourseStaff(p)
    \/ \E p \in Threads : DcUpdateCourseWrite(p)
    \/ \E p \in Threads : DcStatementFails(p)

PairSpec == PairInit /\ [][PairNext]_vars

----------------------------------------------------------------------------
\* Properties.  A property about a call is stated on the call's result in every
\* reachable state: CallX(...) is the call made now, OnX(r.st, ...) a call that follows
\* it on the store it left.

\* How often x is in the list a read returned (a slice from MockDatabase, the bag of
\* the selected rows from Database).
ListCount(list, x) == IF IsMock THEN Occurrences(list, x) ELSE Copies(list, x)

ListIsEmpty(list) == DOMAIN list = {}

\* A read of a course's list that finds nothing: not-found, or success with no entry.
NotFoundOrEmpty(g) == g.err = "ErrCourseNotFound" \/ (g.err = "nil" /\ ListIsEmpty(g.ret))

\* s is in GetCourseStudents(c) on store st; c is in GetStudentCourses(s); and for staff.
InCourseStudents(st, c, s) ==
    LET g == OnGetCourseStudents(st, c) IN g.err = "nil" /\ ListCount(g.ret, s) > 0
InStudentCourses(st, s, c) ==
    LET g == OnGetStudentCourses(st, s) IN g.err = "nil" /\ ListCount(g.ret, c) > 0
InCourseStaff(st, c, t) ==
    LET g == OnGetCourseStaff(st, c) IN g.err = "nil" /\ ListCount(g.ret, t) > 0
InStaffCourses(st, t, c) ==
    LET g == OnGetStaffCourses(st, t) IN g.err = "nil" /\ ListCount(g.ret, c) > 0

\* Course c exists in the store now.
CourseExists(c) == CallGetCourse(c).err = "nil"

\* No student or staff association with course c is left in store st.
NoAssociationWith(st, c) ==
    /\ NotFoundOrEmpty(OnGetCourseStudents(st, c))
    /\ NotFoundOrEmpty(OnGetCourseStaff(st, c))
    /\ \A s \in StudentIDs : ~InStudentCourses(st, s, c)
    /\ \A t \in StaffIDs : ~InStaffCourses(st, t, c)

\* C1: in both stores, for a course c that has a student and a staff member, after
\* DeleteCourse(c) returns success no student or staff association with c remains:
\* GetCourseStudents(c) and GetCourseStaff(c) return not-found or an empty list, and
\* no GetStudentCourses(s) or GetStaffCourses(t) contains c.  MockDatabase.DeleteCourse
\* returns in the step it is called in; Database.DeleteCourse returns nil with its
\* third statement.
DeleteCourseRemovesAssociations ==
    [][/\ IsMock =>
             \A c \in CourseIDs :
                 LET r == CallDeleteCourse(c)
                 IN (/\ \E s \in StudentIDs : InCourseStudents(Store, c, s)
                     /\ \E t \in StaffIDs : InCourseStaff(Store, c, t)
                     /\ r.err = "nil") => NoAssociationWith(r.st, c)
       /\ \A p \in Threads :
             (/\ threads[p].pc = "deleteStaff"
              /\ threads[p].associated
              /\ DcDeleteCourseStaff(p)) => NoAssociationWith(Store', threads[p].courseID)
      ]_vars

\* C2: in both stores, after DeleteCourse(c) returns success no announcement with
\* course_id c remains: GetAnnouncements(c) returns not-found or an empty list.
DeleteCourseRemovesAnnouncements ==
    \A c \in CourseIDs :
        LET r == CallDeleteCourse(c)
        IN r.err = "nil" => NotFoundOrEmpty(OnGetAnnouncements(r.st, c))

\* C3: AddCourse, and CreateCourse with a valid token, with the id of a course that
\* exists fail, and leave the store (the course's fields, its associations, its
\* announcements) exactly as it was.
CreateExistingCourseFails ==
    \A course \in CourseMsgs :
        CourseExists(course.CourseID) =>
            /\ CallAddCourse(course).err # "nil"
            /\ CallAddCourse(course).st = Store
            /\ \A token \in ValidTokens :
                /\ SvcCreateCourse(token, course).code # "OK"
                /\ SvcCreateCourse(token, course).st = Store

\* A course with a student and an announcement; a create with its id and another name.
CreateExistingCourseFails_witness ==
    \E course \in CourseMsgs, s \in StudentIDs :
        /\ CourseExists(course.CourseID)
        /\ CallGetCourse(course.CourseID).ret.CourseName # course.CourseName
        /\ InCourseStudents(Store, course.CourseID, s)
        /\ ~NotFoundOrEmpty(CallGetAnnouncements(course.CourseID))
        /\ CallAddCourse(course).err # "nil"
        /\ CallAddCourse(course).st = Store

\* C4: in both stores, for an existing course c and an id e, AddStudentToCourse(c, e)
\* (resp. AddStaffToCourse) twice succeeds both times and leaves the state one call
\* leaves: GetCourseStudents(c) lists e once, and one RemoveStudentFromCourse(c, e)
\* makes the pair absent.
AddTwiceIsAddOnce ==
    \A c \in CourseIDs \ {""} :
        CourseExists(c) =>
            /\ \A s \in StudentIDs \ {""} :
                LET r1 == CallAddStudentToCourse(c, s)
                    r2 == OnAddStudentToCourse(r1.st, c, s)
                    g == OnGetCourseStudents(r2.st, c)
                    rm == OnRemoveStudentFromCourse(r2.st, c, s)
                IN /\ r1.err = "nil" /\ r2.err = "nil"
                   /\ r2.st = r1.st
                   /\ g.err = "nil" /\ ListCount(g.ret, s) = 1
                   /\ rm.err = "nil"
                   /\ ~InCourseStudents(rm.st, c, s) /\ ~InStudentCourses(rm.st, s, c)
            /\ \A t \in StaffIDs \ {""} :
                LET r1 == CallAddStaffToCourse(c, t)
                    r2 == OnAddStaffToCourse(r1.st, c, t)
                    g == OnGetCourseStaff(r2.st, c)
                    rm == OnRemoveStaffFromCourse(r2.st, c, t)
                IN /\ r1.err = "nil" /\ r2.err = "nil"
                   /\ r2.st = r1.st
                   /\ g.err = "nil" /\ ListCount(g.ret, t) = 1
                   /\ rm.err = "nil"
                   /\ ~InCourseStaff(rm.st, c, t) /\ ~InStaffCourses(rm.st, t, c)

\* C5: the two lookup directions agree: s is in GetCourseStudents(c) iff c is in
\* GetStudentCourses(s), likewise for staff; after a successful AddStudentToCourse(c, s)
\* both contain the other, after a successful RemoveStudentFromCourse(c, s) neither does.
LookupDirectionsAgree ==
    /\ \A c \in CourseIDs, s \in StudentIDs :
        /\ InCourseStudents(Store, c, s) <=> InStudentCourses(Store, s, c)
        /\ LET r == CallAddStudentToCourse(c, s)
           IN r.err = "nil" => InCourseStudents(r.st, c, s) /\ InStudentCourses(r.st, s, c)
        /\ LET r == CallRemoveStudentFromCourse(c, s)
           IN r.err = "nil" => ~InCourseStudents(r.st, c, s) /\ ~InStudentCourses(r.st, s, c)
    /\ \A c \in CourseIDs, t \in StaffIDs :
        /\ InCourseStaff(Store, c, t) <=> InStaffCourses(Store, t, c)
        /\ LET r == CallAddStaffToCourse(c, t)
           IN r.err = "nil" => InCourseStaff(r.st, c, t) /\ InStaffCourses(r.st, t, c)
        /\ LET r == CallRemoveStaffFromCourse(c, t)
           IN r.err = "nil" => ~InCourseStaff(r.st, c, t) /\ ~InStaffCourses(r.st, t, c)

\* Student s1 is in two courses, s2 in one of them; s1 leaves one course and stays
\* listed, in both directions, in the other.
LookupDirectionsAgree_witness ==
    \E c \in CourseIDs, c2 \in CourseIDs, s \in StudentIDs, s2 \in StudentIDs :
        /\ c # c2 /\ s # s2
        /\ InCourseStudents(Store, c, s) /\ InStudentCourses(Store, s, c)
        /\ InCourseStudents(Store, c2, s) /\ InStudentCourses(Store, s, c2)
        /\ InCourseStudents(Store, c, s2) /\ ~InCourseStudents(Store, c2, s2)
        /\ LET r == CallRemoveStudentFromCourse(c, s)
           IN /\ r.err = "nil"
              /\ ~InCourseStudents(r.st, c, s) /\ ~InStudentCourses(r.st, s, c)
              /\ InCourseStudents(r.st, c2, s) /\ InStudentCourses(r.st, s, c2)
              /\ InCourseStudents(r.st, c, s2)

\* C6: UpdateCourse on an existing course overwrites each of course_name, semester and
\* description with the incoming value only when that value is non-empty, keeps the
\* field otherwise, never changes course_id, and returns the course as it is stored
\* after the update.  A call that no other statement falls into goes from its call
\* to its return in the first conjunct; Database.UpdateCourse returns existingCourse
\* and nil with its UPDATE, whatever ran since its SELECT.
UpdateOverwritesNonEmptyFields ==
    [][/\ \A course \in CourseMsgs :
             LET old == CallGetCourse(course.CourseID)
                 r == CallUpdateCourse(course)
                 new == OnGetCourse(r.st, course.CourseID)
             IN old.err = "nil" =>
                 /\ r.err = "nil"
                 /\ new.err = "nil" /\ new.ret = r.ret
                 /\ r.ret.CourseID = course.CourseID
                 /\ r.ret.CourseID = old.ret.CourseID
                 /\ r.ret.CourseName =
                      (IF course.CourseName # "" THEN course.CourseName
                       ELSE old.ret.CourseName)
                 /\ r.ret.Semester =
                      (IF course.Semester # "" THEN course.Semester ELSE old.ret.Semester)
                 /\ r.ret.Description =
                      (IF course.Description # "" THEN course.Description
                       ELSE old.ret.Description)
       /\ \A p \in Threads :
             (threads[p].pc = "update" /\ DcUpdateCourseWrite(p)) =>
                 LET returned == threads[p].existingCourse
                     new == OnGetCourse(Store', returned.CourseID)
                 IN new.err = "nil" /\ new.ret = returned
      ]_vars

\* The token is one whose verification fails: no Claims are injected and the identity
\* service rejects it.
VerificationFails(token) == ~claims /\ ~BaseVerifyToken(token)

\* The reply of a handler that stopped at the authorization gate.
Rejected(v) == v.code = "Unauthenticated" /\ v.calls = <<>> /\ v.st = Store

\* C7: every service operation, called with a token whose verification fails, returns
\* Unauthenticated, invokes no store operation and leaves the store unchanged.
FailedVerificationTouchesNothing ==
    \A token \in Tokens :
        VerificationFails(token) =>
            /\ \A c \in CourseIDs :
                /\ Rejected(SvcGetCourse(token, c))
                /\ Rejected(SvcDeleteCourse(token, c))
                /\ Rejected(SvcGetCourseStudents(token, c))
                /\ Rejected(SvcGetCourseStaff(token, c))
                /\ Rejected(SvcGetCourseAnnouncements(token, c))
                /\ \A s \in StudentIDs :
                    /\ Rejected(SvcAddStudentToCourse(token, c, s))
                    /\ Rejected(SvcRemoveStudentFromCourse(token, c, s))
                /\ \A t \in StaffIDs :
                    /\ Rejected(SvcAddStaffToCourse(token, c, t))
                    /\ Rejected(SvcRemoveStaffFromCourse(token, c, t))
                /\ \A a \in AnnouncementMsgs :
                    Rejected(SvcAddAnnouncementToCourse(token, c, a))
                /\ \A a \in AnnouncementIDs :
                    Rejected(SvcRemoveAnnouncementFromCourse(token, c, a))
            /\ \A s \in StudentIDs : Rejected(SvcGetStudentCourses(token, s))
            /\ \A t \in StaffIDs : Rejected(SvcGetStaffCourses(token, t))
            /\ \A course \in RpcCourseMsgs :
                /\ Rejected(SvcCreateCourse(token, course))
                /\ Rejected(SvcUpdateCourse(token, course))

\* A course with a student exists; a DeleteCourse and an AddStudentToCourse that the
\* store would carry out are rejected at the gate.
FailedVerificationTouchesNothing_witness ==
    \E token \in Tokens, c \in CourseIDs, s \in StudentIDs, s2 \in StudentIDs :
        /\ VerificationFails(token)
        /\ InCourseStudents(Store, c, s) /\ ~InCourseStudents(Store, c, s2)
        /\ CallDeleteCourse(c).err = "nil" /\ CallDeleteCourse(c).st # Store
        /\ CallAddStudentToCourse(c, s2).err = "nil"
        /\ CallAddStudentToCourse(c, s2).st # Store
        /\ Rejected(SvcDeleteCourse(token, c))
        /\ Rejected(SvcAddStudentToCourse(token, c, s2))

\* C8: in both stores, AddStudentToCourse, AddStaffToCourse and AddAnnouncement on a
\* course id that does not exist fail with not-found and create no association and no
\* announcement.
AddToMissingCourseFails ==
    \A c \in CourseIDs \ {""} :
        ~CourseExists(c) =>
            /\ \A s \in StudentIDs \ {""} :
                /\ CallAddStudentToCourse(c, s).err = "ErrCourseNotFound"
                /\ CallAddStudentToCourse(c, s).st = Store
            /\ \A t \in StaffIDs \ {""} :
                /\ CallAddStaffToCourse(c, t).err = "ErrCourseNotFound"
                /\ CallAddStaffToCourse(c, t).st = Store
            /\ \A a \in AnnouncementMsgs :
                LET r == CallAddAnnouncement([CourseID |-> c, Announcement |-> a])
                IN a.AnnouncementContent # "" =>
                    r.err = "ErrCourseNotFound" /\ r.st = Store

\* C9: in both stores, UpdateCourse and DeleteCourse on a course id that does not exist
\* fail with the not-found error, create no course and leave the store unchanged.
UpdateDeleteMissingCourseNotFound ==
    \A course \in CourseMsgs :
        (course.CourseID # "" /\ ~CourseExists(course.CourseID)) =>
            /\ CallUpdateCourse(course).err = "ErrCourseNotFound"
            /\ CallUpdateCourse(course).st = Store
            /\ CallDeleteCourse(course.CourseID).err = "ErrCourseNotFound"
            /\ CallDeleteCourse(course.CourseID).st = Store

\* An announcement with id a is in the list a GetAnnouncements returned.
AnnouncementListed(list, a) ==
    IF IsMock THEN \E i \in DOMAIN list : list[i].AnnouncementID = a
    ELSE \E row \in DOMAIN list : row.AnnouncementID = a

\* The pair (c, s) is stored: one of the lookup directions shows it.
StudentPairPresent(c, s) == InCourseStudents(Store, c, s) \/ InStudentCourses(Store, s, c)
StaffPairPresent(c, t) == InCourseStaff(Store, c, t) \/ InStaffCourses(Store, t, c)
AnnouncementPresent(c, a) ==
    LET g == CallGetAnnouncements(c) IN g.err = "nil" /\ AnnouncementListed(g.ret, a)

\* C10: in both stores, RemoveStudentFromCourse, RemoveStaffFromCourse and
\* RemoveAnnouncement on a pair or an announcement (of non-empty ids) that is not
\* present fail with ErrCourseNotFound and leave the store unchanged; none of them
\* succeeds unless the pair or the announcement was present.
RemoveAbsentFailsNotFound ==
    \A c \in CourseIDs :
        /\ \A s \in StudentIDs :
            LET r == CallRemoveStudentFromCourse(c, s)
            IN /\ (c # "" /\ s # "" /\ ~StudentPairPresent(c, s)) =>
                    r.err = "ErrCourseNotFound" /\ r.st = Store
               /\ r.err = "nil" => StudentPairPresent(c, s)
        /\ \A t \in StaffIDs :
            LET r == CallRemoveStaffFromCourse(c, t)
            IN /\ (c # "" /\ t # "" /\ ~StaffPairPresent(c, t)) =>
                    r.err = "ErrCourseNotFound" /\ r.st = Store
               /\ r.err = "nil" => StaffPairPresent(c, t)
        /\ \A a \in AnnouncementIDs :
            LET r == CallRemoveAnnouncement(c, a)
            IN /\ (c # "" /\ a # "" /\ ~AnnouncementPresent(c, a)) =>
                    r.err = "ErrCourseNotFound" /\ r.st = Store
               /\ r.err = "nil" => AnnouncementPresent(c, a)

\* Course c holds student s and announcement a but neither student s2 nor announcement
\* a2: removing s2 or a2 fails and changes nothing, removing s or a succeeds.
RemoveAbsentFailsNotFound_witness ==
    \E c \in CourseIDs, s \in StudentIDs, s2 \in StudentIDs,
       a \in AnnouncementIDs, a2 \in AnnouncementIDs :
        /\ CourseExists(c) /\ s2 # "" /\ a2 # ""
        /\ StudentPairPresent(c, s) /\ ~StudentPairPresent(c, s2)
        /\ AnnouncementPresent(c, a) /\ ~AnnouncementPresent(c, a2)
        /\ CallRemoveStudentFromCourse(c, s2).err = "ErrCourseNotFound"
        /\ CallRemoveStudentFromCourse(c, s2).st = Store
        /\ CallRemoveAnnouncement(c, a2).err = "ErrCourseNotFound"
        /\ CallRemoveAnnouncement(c, a2).st = Store
        /\ CallRemoveStudentFromCourse(c, s).err = "nil"
        /\ CallRemoveAnnouncement(c, a).err = "nil"

\* The errors for an empty required field, and the ones for a failed validation.
EmptyFieldErrors ==
    {"ErrCourseIDEmpty", "ErrStudentIDEmpty", "ErrStaffIDEmpty", "ErrAnnouncementEmpty",
     "ErrSemesterEmpty"}
ValidationErrors == EmptyFieldErrors \cup {"ErrCourseNil"}

\* C11: in both stores, GetCourse, GetCourseStudents, GetCourseStaff and
\* GetAnnouncements on a course id that does not exist return not-found; on an existing
\* course the three list operations return no error, and an empty list when the course
\* has no students, staff or announcements.
ReadsOfMissingCourseNotFound ==
    \A c \in CourseIDs \ {""} :
        /\ ~CourseExists(c) =>
            /\ CallGetCourse(c).err = "ErrCourseNotFound"
            /\ CallGetCourseStudents(c).err = "ErrCourseNotFound"
            /\ CallGetCourseStaff(c).err = "ErrCourseNotFound"
            /\ CallGetAnnouncements(c).err = "ErrCourseNotFound"
        /\ CourseExists(c) =>
            /\ CallGetCourseStudents(c).err = "nil"
            /\ CallGetCourseStaff(c).err = "nil"
            /\ CallGetAnnouncements(c).err = "nil"
            /\ (\A s \in StudentIDs : ~InStudentCourses(Store, s, c))
                    => ListIsEmpty(CallGetCourseStudents(c).ret)
            /\ (\A t \in StaffIDs : ~InStaffCourses(Store, t, c))
                    => ListIsEmpty(CallGetCourseStaff(c).ret)

\* An empty-field failure that left the store alone.
EmptyFieldFailure(r) == r.err \in EmptyFieldErrors /\ r.st = Store

\* C12: in both stores, every operation called with an empty course id, student id,
\* staff id, announcement id, semester or announcement content returns an empty-field
\* error (none of which is the not-found error) and leaves the store unchanged.
EmptyFieldFailsFast ==
    /\ "ErrCourseNotFound" \notin EmptyFieldErrors
    /\ \A course \in CourseMsgs :
        course.CourseID = "" =>
            /\ EmptyFieldFailure(CallAddCourse(course))
            /\ EmptyFieldFailure(CallUpdateCourse(course))
    /\ EmptyFieldFailure(CallGetCourse(""))
    /\ EmptyFieldFailure(CallDeleteCourse(""))
    /\ EmptyFieldFailure(CallGetCourseStudents(""))
    /\ EmptyFieldFailure(CallGetCourseStaff(""))
    /\ EmptyFieldFailure(CallGetAnnouncements(""))
    /\ EmptyFieldFailure(CallGetStudentCourses(""))
    /\ EmptyFieldFailure(CallGetStaffCourses(""))
    /\ ~IsMock => EmptyFieldFailure(DbGetCoursesBySemester(DbStore, ""))
    /\ \A c \in CourseIDs, s \in StudentIDs :
        (c = "" \/ s = "") =>
            /\ EmptyFieldFailure(CallAddStudentToCourse(c, s))
            /\ EmptyFieldFailure(CallRemoveStudentFromCourse(c, s))
    /\ \A c \in CourseIDs, t \in StaffIDs :
        (c = "" \/ t = "") =>
            /\ EmptyFieldFailure(CallAddStaffToCourse(c, t))
            /\ EmptyFieldFailure(CallRemoveStaffFromCourse(c, t))
    /\ \A c \in CourseIDs, a \in AnnouncementIDs :
        (c = "" \/ a = "") => EmptyFieldFailure(CallRemoveAnnouncement(c, a))
    /\ \A c \in CourseIDs, a \in AnnouncementMsgs :
        (c = "" \/ a.AnnouncementID = "" \/ a.AnnouncementContent = "") =>
            EmptyFieldFailure(CallAddAnnouncement([CourseID |-> c, Announcement |-> a]))

\* Internal is given for a store error that is neither not-found nor a failed validation.
InternalIsOther(v, r) ==
    v.code = "Internal" => r.err \notin {"nil", "ErrCourseNotFound"} \cup ValidationErrors

\* C13: at the service layer a store not-found error becomes NotFound: UpdateCourse and
\* DeleteCourse of a course that does not exist, and RemoveStudentFromCourse,
\* RemoveStaffFromCourse and RemoveAnnouncementFromCourse of an absent pair or
\* announcement return NotFound, and these operations return Internal only for a store
\* error that is neither not-found nor a validation failure.
NotFoundIsTranslated ==
    \A token \in ValidTokens, c \in CourseIDs \ {""} :
        /\ InternalIsOther(SvcDeleteCourse(token, c), CallDeleteCourse(c))
        /\ \A s \in StudentIDs :
            InternalIsOther(SvcRemoveStudentFromCourse(token, c, s),
                            CallRemoveStudentFromCourse(c, s))
        /\ ~CourseExists(c) =>
            /\ SvcDeleteCourse(token, c).code = "NotFound"
            /\ \A course \in RpcCourseMsgs \ {NilCourse} :
                course.CourseID = c => SvcUpdateCourse(token, course).code = "NotFound"
        /\ \A s \in StudentIDs \ {""} :
            ~StudentPairPresent(c, s) =>
                SvcRemoveStudentFromCourse(token, c, s).code = "NotFound"
        /\ \A t \in StaffIDs \ {""} :
            ~StaffPairPresent(c, t) =>
                SvcRemoveStaffFromCourse(token, c, t).code = "NotFound"
        /\ \A a \in AnnouncementIDs \ {""} :
            ~AnnouncementPresent(c, a) =>
                SvcRemoveAnnouncementFromCourse(token, c, a).code = "NotFound"

\* C14: at the service layer a store validation failure (an empty required field, a nil
\* course) becomes InvalidArgument for every operation.
ValidationIsTranslated ==
    \A token \in ValidTokens :
        /\ SvcGetCourse(token, "").code = "InvalidArgument"
        /\ SvcDeleteCourse(token, "").code = "InvalidArgument"
        /\ SvcGetCourseStudents(token, "").code = "InvalidArgument"
        /\ SvcGetCourseStaff(token, "").code = "InvalidArgument"
        /\ SvcGetCourseAnnouncements(token, "").code = "InvalidArgument"
        /\ SvcGetStudentCourses(token, "").code = "InvalidArgument"
        /\ SvcGetStaffCourses(token, "").code = "InvalidArgument"
        /\ \A course \in RpcCourseMsgs :
            CourseFields(course).CourseID = "" =>
                /\ SvcCreateCourse(token, course).code = "InvalidArgument"
                /\ SvcUpdateCourse(token, course).code = "InvalidArgument"
        /\ \A c \in CourseIDs, s \in StudentIDs :
            (c = "" \/ s = "") =>
                /\ SvcAddStudentToCourse(token, c, s).code = "InvalidArgument"
                /\ SvcRemoveStudentFromCourse(token, c, s).code = "InvalidArgument"
        /\ \A c \in CourseIDs, t \in StaffIDs :
            (c = "" \/ t = "") =>
                /\ SvcAddStaffToCourse(token, c, t).code = "InvalidArgument"
                /\ SvcRemoveStaffFromCourse(token, c, t).code = "InvalidArgument"
        /\ \A c \in CourseIDs, a \in AnnouncementIDs :
            (c = "" \/ a = "") =>
                SvcRemoveAnnouncementFromCourse(token, c, a).code = "InvalidArgument"

\* The entries of the list a GetAnnouncements returned.
AnnouncementEntries(list) == IF IsMock THEN {list[i] : i \in DOMAIN list} ELSE DOMAIN list

\* GetAnnouncements(c) on store st succeeds and has an entry with a's id, title, content.
ListsAnnouncement(st, c, a) ==
    LET g == OnGetAnnouncements(st, c)
    IN /\ g.err = "nil"
       /\ \E e \in AnnouncementEntries(g.ret) :
            /\ e.AnnouncementID = a.AnnouncementID
            /\ e.Title = a.AnnouncementTitle
            /\ e.Content = a.AnnouncementContent

\* GetAnnouncements(c) on store st succeeds and has no entry with that id.
ListsNoAnnouncement(st, c, id) ==
    LET g == OnGetAnnouncements(st, c)
    IN g.err = "nil" /\ \A e \in AnnouncementEntries(g.ret) : e.AnnouncementID # id

\* C16: for an existing course c and an announcement a, after AddAnnouncement(c, a)
\* succeeds GetAnnouncements(c) has an entry with a's id, title and content; after
\* RemoveAnnouncement(c, a.id) then succeeds GetAnnouncements(c) has no entry with
\* that id.
AnnouncementAddedThenRemoved ==
    \A c \in CourseIDs, a \in AnnouncementMsgs :
        LET r == CallAddAnnouncement([CourseID |-> c, Announcement |-> a])
            rm == OnRemoveAnnouncement(r.st, c, a.AnnouncementID)
        IN (CourseExists(c) /\ r.err = "nil") =>
            /\ ListsAnnouncement(r.st, c, a)
            /\ rm.err = "nil" => ListsNoAnnouncement(rm.st, c, a.AnnouncementID)

\* A course holding announcement a2 gets announcement a: both are listed; a is removed
\* and a2 stays.
AnnouncementAddedThenRemoved_witness ==
    \E c \in CourseIDs, a \in AnnouncementMsgs, a2 \in AnnouncementIDs :
        LET r == CallAddAnnouncement([CourseID |-> c, Announcement |-> a])
            rm == OnRemoveAnnouncement(r.st, c, a.AnnouncementID)
        IN /\ CourseExists(c) /\ a2 # a.AnnouncementID
           /\ AnnouncementPresent(c, a2) /\ ~AnnouncementPresent(c, a.AnnouncementID)
           /\ r.err = "nil" /\ ListsAnnouncement(r.st, c, a)
           /\ rm.err = "nil" /\ ListsNoAnnouncement(rm.st, c, a.AnnouncementID)
           /\ ~ListsNoAnnouncement(rm.st, c, a2)

\* The list a read returned is exactly [x].
ListIsJust(list, x) ==
    /\ ListCount(list, x) = 1
    /\ \A y \in StudentIDs \cup StaffIDs \cup CourseIDs : y # x => ListCount(list, y) = 0

\* C15: from a store in which course c does not exist, for every student s:
\* CreateCourse(c, name, semester) succeeds, GetCourse(c) returns exactly those fields,
\* AddStudentToCourse(c, s) succeeds, GetCourseStudents(c) = [s],
\* RemoveStudentFromCourse(c, s) succeeds, GetCourseStudents(c) = [], DeleteCourse(c)
\* succeeds, and GetCourse(c) then fails with NotFound.
ScenarioCreateToDelete ==
    \A token \in ValidTokens, course \in RpcCourseMsgs \ {NilCourse},
       s \in StudentIDs \ {""} :
        LET c == course.CourseID
            v1 == SvcCreateCourse(token, course)
            v2 == OnSvcGetCourse(v1.st, token, c)
            v3 == OnSvcAddStudentToCourse(v2.st, token, c, s)
            v4 == OnSvcGetCourseStudents(v3.st, token, c)
            v5 == OnSvcRemoveStudentFromCourse(v4.st, token, c, s)
            v6 == OnSvcGetCourseStudents(v5.st, token, c)
            v7 == OnSvcDeleteCourse(v6.st, token, c)
            v8 == OnSvcGetCourse(v7.st, token, c)
        IN (c # "" /\ ~CourseExists(c)) =>
            /\ v1.code = "OK"
            /\ v2.code = "OK" /\ v2.body = course
            /\ v3.code = "OK"
            /\ v4.code = "OK" /\ ListIsJust(v4.body, s)
            /\ v5.code = "OK"
            /\ v6.code = "OK" /\ ListIsEmpty(v6.body)
            /\ v7.code = "OK"
            /\ v8.code = "NotFound"

\* The kind of a store call's outcome.
OutcomeKind(err) ==
    IF err = "nil" THEN "success"
    ELSE IF err \in ValidationErrors THEN "empty-field"
    ELSE IF err = "ErrCourseNotFound" THEN "not-found"
    ELSE "failure"

\* The two results have the same kind, and on success the same course.
SameCourseResult(m, d) ==
    /\ OutcomeKind(m.err) = OutcomeKind(d.err)
    /\ m.err = "nil" => m.ret = d.ret

\* The same kind, and on success the same collection (the slice as a bag).
SameListResult(m, d, values) ==
    /\ OutcomeKind(m.err) = OutcomeKind(d.err)
    /\ m.err = "nil" => \A x \in values : Occurrences(m.ret, x) = Copies(d.ret, x)

SameKind(m, d) == OutcomeKind(m.err) = OutcomeKind(d.err)

\* Every Announcement the calls can store.
AnnouncementRows ==
    {NewAnnouncement(c, a) : c \in CourseIDs, a \in AnnouncementMsgs}

\* C17: applied to both stores from the empty state, every store operation returns the
\* same outcome kind (success, empty-field, not-found, already-exists/failure) in both,
\* and every read returns the same course fields and the same collections of ids and
\* announcements.
StoresInterchangeable ==
    /\ \A course \in RpcCourseMsgs :
        /\ SameCourseResult(MockAddCourse(MockStore, course), DbAddCourse(DbStore, course))
        /\ SameCourseResult(MockUpdateCourse(MockStore, course),
                            DbUpdateCourse(DbStore, course))
    /\ \A c \in CourseIDs :
        /\ SameCourseResult(MockGetCourse(MockStore, c), DbGetCourse(DbStore, c))
        /\ SameKind(MockDeleteCourse(MockStore, c), DbDeleteCourse(DbStore, c))
        /\ SameListResult(MockGetCourseStudents(MockStore, c),
                          DbGetCourseStudents(DbStore, c), StudentIDs)
        /\ SameListResult(MockGetCourseStaff(MockStore, c),
                          DbGetCourseStaff(DbStore, c), StaffIDs)
        /\ SameListResult(MockGetAnnouncements(MockStore, c),
                          DbGetAnnouncements(DbStore, c), AnnouncementRows)
        /\ \A s \in StudentIDs :
            /\ SameKind(MockAddStudentToCourse(MockStore, c, s),
                        DbAddStudentToCourse(DbStore, c, s))
            /\ SameKind(MockRemoveStudentFromCourse(MockStore, c, s),
                        DbRemoveStudentFromCourse(DbStore, c, s))
        /\ \A t \in StaffIDs :
            /\ SameKind(MockAddStaffToCourse(MockStore, c, t),
                        DbAddStaffToCourse(DbStore, c, t))
            /\ SameKind(MockRemoveStaffFromCourse(MockStore, c, t),
                        DbRemoveStaffFromCourse(DbStore, c, t))
        /\ \A a \in AnnouncementMsgs :
            SameKind(MockAddAnnouncement(MockStore, [CourseID |-> c, Announcement |-> a]),
                     DbAddAnnouncement(DbStore, [CourseID |-> c, Announcement |-> a]))
        /\ \A a \in AnnouncementIDs :
            SameKind(MockRemoveAnnouncement(MockStore, c, a),
                     DbRemoveAnnouncement(DbStore, c, a))
    /\ \A s \in StudentIDs :
        SameListResult(MockGetStudentCourses(MockStore, s),
                       DbGetStudentCourses(DbStore, s), CourseIDs)
    /\ \A t \in StaffIDs :
        SameListResult(MockGetStaffCourses(MockStore, t),
                       DbGetStaffCourses(DbStore, t), CourseIDs)

\* The goroutines inside a MockDatabase method body, by the mode of their lock.
WritersInside == {p \in Threads : threads[p].pc \in {"locked", "cleanup", "inserting"}}
ReadersInside == {p \in Threads : threads[p].pc = "rlocked"}

\* C18: in the in-memory store a goroutine runs the body of a mutating method only
\* as the one holder of the mutex, with no other goroutine inside any method body,
\* and the body of a read method only as a shared holder, with no writer inside;
\* a call that returns without locking is an argument check that never looked at
\* the maps (same error on any maps, maps unchanged), and a read method leaves the
\* maps as they are.
MutexGuardsTheMaps ==
    /\ \A p \in WritersInside :
          /\ threads[p].call.op \in MockWriters
          /\ mutex.writer = p
          /\ mutex.readers = {}
          /\ WritersInside = {p}
          /\ ReadersInside = {}
    /\ \A p \in ReadersInside :
          /\ threads[p].call.op \in MockReaders
          /\ p \in mutex.readers
          /\ mutex.writer = NoWriter
          /\ MockApply(MockStore, threads[p].call).st = MockStore
    /\ mutex.readers = ReadersInside
    /\ mutex.writer \in WritersInside \cup {NoWriter}
    /\ \A call \in LockCalls :
          ReturnsBeforeLock(call) =>
              /\ MockApply(MockStore, call).st = MockStore
              /\ MockApply(MockStore, call).err \in ValidationErrors
              /\ MockApply(MockStore, call).err = MockApply(NewMockDatabase, call).err

\* Two read methods overlap inside the store while no writer is inside.
MutexGuardsTheMaps_witness ==
    /\ ReadersInside = Threads
    /\ mutex.readers = Threads
    /\ \E p \in Threads : threads[p].call.op = "GetCourseStudents"

\* The goroutines between two statements of a Database method.
BetweenDeletes == {p \in Threads : threads[p].pc = "deleteStudents"}
BetweenReadAndWrite == {p \in Threads : threads[p].pc = "update"}

\* C19: the first statement of the relational DeleteCourse(c), when it deletes the
\* course row, leaves every course_student and course_staff row in place (so the
\* reads of c's students and staff and of a student's or staff member's courses
\* answer as before); only the two later statements remove them, after which the
\* store is the one the whole DeleteCourse gives when nothing runs in between.
CourseRowDeletedFirst ==
    \A c \in DcCourseIDs :
        LET first == DbDeleteCourseRow(DbStore, c)
            second == DbDeleteCourseStudents(first.st, c)
            third == DbDeleteCourseStaff(second.st, c)
        IN first.err = "nil" =>
              /\ DbGetCourse(first.st, c).err # "nil"
              /\ first.st.tblCourseStudent = tblCourseStudent
              /\ first.st.tblCourseStaff = tblCourseStaff
              /\ DbGetCourseStudents(first.st, c).ret = DbGetCourseStudents(DbStore, c).ret
              /\ DbGetCourseStaff(first.st, c).ret = DbGetCourseStaff(DbStore, c).ret
              /\ \A s \in StudentIDs :
                    DbGetStudentCourses(first.st, s).ret = DbGetStudentCourses(DbStore, s).ret
              /\ third.st = DbDeleteCourse(DbStore, c).st
              /\ NoAssociationWith(third.st, c)

\* A goroutine is between the course delete and the association deletes of
\* DeleteCourse(c): c is gone, and a concurrent GetCourseStudents(c),
\* GetStudentCourses(s1) and GetCourseStaff(c) still return its associations.
CourseRowDeletedFirst_witness ==
    \E p \in BetweenDeletes :
        LET c == threads[p].courseID
        IN /\ DbGetCourse(DbStore, c).err # "nil"
           /\ InCourseStudents(Store, c, "s1")
           /\ InStudentCourses(Store, "s1", c)
           /\ InCourseStaff(Store, c, "t1")

\* C20: the UPDATE of the relational UpdateCourse stores the row this writer read
\* earlier with its message's non-empty fields put in, whatever the row holds at the
\* time of the write: a field the message leaves empty ends with the value this
\* writer read, not with what another writer stored meanwhile.  With nothing in
\* between, the read and the write are the whole UpdateCourse.
LastWriterWins ==
    /\ \A p \in BetweenReadAndWrite :
          LET existingCourse == threads[p].existingCourse
              id == existingCourse.CourseID
              w == DbUpdateCourseWrite(DbStore, existingCourse)
          IN /\ w.err = "nil"
             /\ id \in DOMAIN tblCourses => w.st.tblCourses[id] = existingCourse
             /\ id \notin DOMAIN tblCourses => w.st = DbStore
    /\ \A course \in DcUpdates :
          LET r == DbUpdateCourseRead(DbStore, course)
              existingCourse == UpdatedCourse(r.ret, course)
          IN IF r.err = "nil"
             THEN /\ DbUpdateCourseWrite(DbStore, existingCourse).st
                         = DbUpdateCourse(DbStore, course).st
                  /\ course.CourseName = "" => existingCourse.CourseName = r.ret.CourseName
                  /\ course.Semester = "" => existingCourse.Semester = r.ret.Semester
                  /\ course.Description = "" =>
                         existingCourse.Description = r.ret.Description
             ELSE r.err = DbUpdateCourse(DbStore, course).err

\* Two UpdateCourse calls on c1 have both read the row with the name n1 and no
\* semester; the earlier writer has stored its new name n2, and the later writer,
\* whose message changed only the semester, is about to store the name n1 it read:
\* the course ends with the name it had before either update.
LastWriterWins_witness ==
    \E p \in BetweenReadAndWrite :
        LET existingCourse == threads[p].existingCourse
            id == existingCourse.CourseID
        IN /\ id \in DOMAIN tblCourses
           /\ existingCourse.CourseName = "n1" /\ existingCourse.Semester = "f1"
           /\ tblCourses[id].CourseName = "n2" /\ tblCourses[id].Semester = ""
           /\ DbUpdateCourseWrite(DbStore, existingCourse).st.tblCourses[id].CourseName = "n1"

\* The number of entries of a GetAnnouncements result that carry the announcement id a.
EntriesWithID(list, a) ==
    IF IsMock THEN Cardinality({i \in DOMAIN list : list[i].AnnouncementID = a})
    ELSE SumCopies(list, {row \in DOMAIN list : row.AnnouncementID = a})

\* C21: in both stores, no course has two announcements with the same
\* announcement_id: GetAnnouncements(c) never returns two entries with one id.
AnnouncementIDUniquePerCourse ==
    \A c \in CourseIDs, a \in AnnouncementIDs :
        LET g == CallGetAnnouncements(c)
        IN g.err = "nil" => EntriesWithID(g.ret, a) <= 1

\* The method a call names, run by the backend on the store value st.
OnApply(st, call) ==
    CASE call.op = "AddCourse" -> OnAddCourse(st, call.course)
      [] call.op = "UpdateCourse" -> OnUpdateCourse(st, call.course)
      [] call.op = "DeleteCourse" -> OnDeleteCourse(st, call.a)
      [] call.op = "AddStudentToCourse" -> OnAddStudentToCourse(st, call.a, call.b)
      [] call.op = "RemoveStudentFromCourse" -> OnRemoveStudentFromCourse(st, call.a, call.b)
      [] call.op = "AddStaffToCourse" -> OnAddStaffToCourse(st, call.a, call.b)
      [] call.op = "RemoveStaffFromCourse" -> OnRemoveStaffFromCourse(st, call.a, call.b)
      [] call.op = "AddAnnouncement" -> OnAddAnnouncement(st, call.req)
      [] call.op = "RemoveAnnouncement" -> OnRemoveAnnouncement(st, call.a, call.b)

\* The mutating calls whose target is course c.
TargetCalls(c) ==
    {Call("AddCourse",
          [CourseID |-> c, CourseName |-> "n1", Semester |-> "f1", Description |-> ""],
          NoMsg, NoArg, NoArg),
     Call("UpdateCourse",
          [CourseID |-> c, CourseName |-> "n2", Semester |-> "", Description |-> "d1"],
          NoMsg, NoArg, NoArg)}
    \cup {Call("DeleteCourse", NoMsg, NoMsg, c, NoArg)}
    \cup {Call(op, NoMsg, NoMsg, c, s) :
            op \in {"AddStudentToCourse", "RemoveStudentFromCourse"},
            s \in StudentIDs \ {""}}
    \cup {Call(op, NoMsg, NoMsg, c, t) :
            op \in {"AddStaffToCourse", "RemoveStaffFromCourse"}, t \in StaffIDs \ {""}}
    \cup {Call("AddAnnouncement", NoMsg,
               [CourseID |-> c,
                Announcement |-> [AnnouncementID |-> "a1", AnnouncementTitle |-> "ti",
                                  AnnouncementContent |-> "x"]],
               NoArg, NoArg)}
    \cup {Call("RemoveAnnouncement", NoMsg, NoMsg, c, a) : a \in AnnouncementIDs \ {""}}

\* What a read returned: its error and its value.
Outcome(g) == [g EXCEPT !.st = NoValue]

\* What the reads show of course c on store st: its record, its students, its staff
\* and its announcements, and how often c is listed among each student's and each
\* staff member's courses.
CourseView(st, c) ==
    [course |-> Outcome(OnGetCourse(st, c)),
     students |-> Outcome(OnGetCourseStudents(st, c)),
     staff |-> Outcome(OnGetCourseStaff(st, c)),
     announcements |-> Outcome(OnGetAnnouncements(st, c)),
     ofStudent |-> [s \in StudentIDs \ {""} |-> ListCount(OnGetStudentCourses(st, s).ret, c)],
     ofStaff |-> [t \in StaffIDs \ {""} |-> ListCount(OnGetStaffCourses(st, t).ret, c)]]

\* The store st with each student's and each staff member's course list replaced by
\* the number of times each course is in it (the order of such a list is the order
\* of the calls that built it; the relational tables have no order).
CountCourses(courseMap) ==
    [e \in DOMAIN courseMap |->
        [c \in CourseIDs \ {""} |-> Occurrences(courseMap[e], c)]]
Unordered(st) ==
    IF IsMock
    THEN [st EXCEPT !.studentCourses = CountCourses(@), !.staffCourses = CountCourses(@)]
    ELSE st

\* The calls of TargetCalls and the reads, on a store of either kind.  On a Database
\* UpdateCourse and DeleteCourse run statement by statement, each goroutine's next
\* statement after any step of another caller.
TargetCourses == {call.course : call \in {x \in TargetCalls("c1") \cup TargetCalls("c2") :
                                             x.op \in {"AddCourse", "UpdateCourse"}}}
TargetReqs == {call.req : call \in {x \in TargetCalls("c1") \cup TargetCalls("c2") :
                                        x.op = "AddAnnouncement"}}
FrameNext ==
    \/ \E course \in TargetCourses : AddCourse(course)
    \/ \E c \in CourseIDs : GetCourse(c)
    \/ \E course \in {x \in TargetCourses : x.CourseName = "n2"} : UpdateCourse(course)
    \/ \E p \in Threads, course \in {x \in TargetCourses : x.CourseName = "n2"} :
            DbUpdateCourseCall(p, course)
    \/ \E p \in Threads : DcUpdateCourseWrite(p)
    \/ \E c \in CourseIDs : DeleteCourse(c)
    \/ \E p \in Threads, c \in CourseIDs : DbDeleteCourseCall(p, c)
    \/ \E p \in Threads : DcDeleteCourseStudents(p)
    \/ \E p \in Threads : DcDeleteCourseStaff(p)
    \/ \E p \in Threads : DcStatementFails(p)
    \/ \E c \in CourseIDs \ {""}, s \in StudentIDs \ {""} : AddStudentToCourse(c, s)
    \/ \E c \in CourseIDs \ {""}, s \in StudentIDs \ {""} : RemoveStudentFromCourse(c, s)
    \/ \E c \in CourseIDs : GetCourseStudents(c)
    \/ \E s \in StudentIDs : GetStudentCourses(s)
    \/ \E c \in CourseIDs \ {""}, t \in StaffIDs \ {""} : AddStaffToCourse(c, t)
    \/ \E c \in CourseIDs \ {""}, t \in StaffIDs \ {""} : RemoveStaffFromCourse(c, t)
    \/ \E c \in CourseIDs : GetCourseStaff(c)
    \/ \E t \in StaffIDs : GetStaffCourses(t)
    \/ \E req \in TargetReqs : AddAnnouncement(req.CourseID, req.Announcement)
    \/ \E c \in CourseIDs : GetAnnouncements(c)
    \/ \E c \in CourseIDs \ {""}, a \in AnnouncementIDs \ {""} : RemoveAnnouncement(c, a)
    \/ \E semester \in Semesters : GetCoursesBySemester(semester)

FrameSpec == Init /\ [][FrameNext]_vars

\* The statements of Database.DeleteCourse(c) and the UPDATE of
\* Database.UpdateCourse on a row of c: the steps a goroutine in flight takes.
TargetStatements(c) ==
    {Call(op, NoMsg, NoMsg, c, NoArg) :
        op \in {"DeleteCourseRow", "DeleteCourseStudents", "DeleteCourseStaff"}}
    \cup {Call("UpdateCourseWrite",
               [CourseID |-> c, CourseName |-> "n2", Semester |-> "f1", Description |-> "d1"],
               NoMsg, NoArg, NoArg)}
    \cup {Call("UpdateCourseWrite", threads[p].existingCourse, NoMsg, NoArg, NoArg) :
            p \in {q \in BetweenReadAndWrite : threads[q].existingCourse.CourseID = c}}

\* The steps whose target is course c: the calls that are one step, a
\* Database.UpdateCourse or Database.DeleteCourse no other statement falls into,
\* and on a Database each statement of those two alone.
TargetSteps(c) == IF IsMock THEN TargetCalls(c) ELSE TargetCalls(c) \cup TargetStatements(c)

OnStep(st, step) ==
    CASE step.op = "DeleteCourseRow" -> DbDeleteCourseRow(st, step.a)
      [] step.op = "DeleteCourseStudents" -> DbDeleteCourseStudents(st, step.a)
      [] step.op = "DeleteCourseStaff" -> DbDeleteCourseStaff(st, step.a)
      [] step.op = "UpdateCourseWrite" -> DbUpdateCourseWrite(st, step.course)
      [] OTHER -> OnApply(st, step)

\* A step whose target is c1 leaves what the reads show of every other course c2
\* unchanged: its record, its students, its staff and its announcements.
OtherCoursesUnchanged ==
    \A c1 \in CourseIDs \ {""}, c2 \in CourseIDs \ {""} :
        c1 # c2 =>
            \A step \in TargetSteps(c1) :
                CourseView(OnStep(Store, step).st, c2) = CourseView(Store, c2)

\* C22 as claimed: in both stores, a mutating operation whose target is course c1
\* (DeleteCourse with its cascade included) leaves the record, the students, the
\* staff and the announcements of every other course c2 unchanged, and two
\* operations on different courses give the same final store in either order.
SameStoreInEitherOrder ==
    /\ OtherCoursesUnchanged
    /\ \A x \in TargetSteps("c1"), y \in TargetSteps("c2") :
          OnStep(OnStep(Store, x).st, y).st = OnStep(OnStep(Store, y).st, x).st

\* C22: in both stores, a mutating operation whose target is course c1 (DeleteCourse
\* with its cascade included, and each of its statements on a Database) leaves what
\* the reads show of every other course c2 unchanged: its record, its students, its
\* staff and its announcements; and two steps on different courses give the same
\* final store in either order, up to the order of the courses in a student's or
\* staff member's course list.
DifferentCoursesIndependent ==
    /\ OtherCoursesUnchanged
    /\ \A x \in TargetSteps("c1"), y \in TargetSteps("c2") :
          Unordered(OnStep(OnStep(Store, x).st, y).st)
            = Unordered(OnStep(OnStep(Store, y).st, x).st)

\* Both courses exist with a student each, a student is in both, c2 has an
\* announcement, DeleteCourse(c1) succeeds with its cascade, and a DeleteCourse(c1)
\* and an AddStudentToCourse(c2, s) both succeed in either order and change the store.
DifferentCoursesIndependent_witness ==
    /\ \A c \in {"c1", "c2"} :
          /\ CourseExists(c)
          /\ \E s \in StudentIDs : InCourseStudents(Store, c, s) /\ InStudentCourses(Store, s, c)
    /\ \E s \in StudentIDs : InStudentCourses(Store, s, "c1") /\ InStudentCourses(Store, s, "c2")
    /\ \E a \in AnnouncementIDs : AnnouncementPresent("c2", a)
    /\ CallDeleteCourse("c1").err = "nil"
    /\ \E x \in TargetSteps("c1"), y \in TargetSteps("c2") :
          /\ x.op = "DeleteCourse" /\ y.op = "AddStudentToCourse"
          /\ OnStep(Store, x).err = "nil" /\ OnStep(OnStep(Store, x).st, y).err = "nil"
          /\ OnStep(Store, y).err = "nil" /\ OnStep(OnStep(Store, y).st, x).err = "nil"
          /\ OnStep(Store, x).st # Store /\ OnStep(Store, y).st # OnStep(Store, x).st

\* C24: a successful AddAnnouncementToCourse returns the announcement that was added:
\* the response is not empty, and carries the id, title and content of the request.
AddAnnouncementReturnsIt ==
    \A token \in Tokens, c \in CourseIDs, a \in AnnouncementMsgs :
        LET v == SvcAddAnnouncementToCourse(token, c, a)
        IN v.code = "OK" => (v.body # NoValue /\ v.body = a)

\* Course c has a row in courses and rows in the association tables.
HasCourseAndAssociations(d, c) ==
    /\ c \in DOMAIN d.tblCourses
    /\ \E r \in DOMAIN d.tblCourseStudent : r[1] = c
    /\ \E r \in DOMAIN d.tblCourseStaff : r[1] = c

\* C23: when a statement of the relational DeleteCourse(c) fails after the course
\* row was deleted, the store's DeleteCourse returns an error and the service's
\* DeleteCourse returns a failure code, not the empty success response; a
\* DeleteCourse that returns no error has run all three statements.
PartialDeleteIsAnError ==
    \A c \in DcCourseIDs, failing \in DeleteStatements :
        LET r == DbDeleteCourseFailing(DbStore, c, failing)
            v == SvcDeleteCourseFailing(DbStore, "good", c, failing)
        IN /\ (failing # "none" /\ c # "") => (r.err # "nil" /\ v.code = "Internal")
           /\ (r.st # DbStore /\ ~NoAssociationWith(r.st, c)) => r.err # "nil"
           /\ v.code = "OK" <=> r.err = "nil"
           /\ r.err = "nil" => r.st = DbDeleteCourse(DbStore, c).st

\* DeleteCourse(c1) on a course with students and staff fails at its second
\* statement: the course row is gone, the call returns an error.
PartialDeleteIsAnError_witness ==
    /\ HasCourseAndAssociations(DbStore, "c1")
    /\ DbDeleteCourseFailing(DbStore, "c1", "students").st.tblCourses # tblCourses
    /\ DbDeleteCourseFailing(DbStore, "c1", "students").err = "ErrExec"
    /\ SvcDeleteCourseFailing(DbStore, "good", "c1", "staff").code = "Internal"

\* The rows of an association table that reference course c.
RowsOf(tbl, c) == [r \in {x \in DOMAIN tbl : x[1] = c} |-> tbl[r]]

\* C26: a relational DeleteCourse(c) that stops at a failed statement rolls nothing
\* back: stopped after the course delete, the course row stays deleted and every
\* course_student and course_staff row of c is still there; stopped after the
\* student delete, the course_staff rows of c are still there; the rows of other
\* courses and the announcements are as before.
AbortedDeleteKeepsItsSteps ==
    \A c \in DcCourseIDs :
        c \in DOMAIN tblCourses =>
            LET atStudents == DbDeleteCourseFailing(DbStore, c, "students").st
                atStaff == DbDeleteCourseFailing(DbStore, c, "staff").st
            IN /\ c \notin DOMAIN atStudents.tblCourses
               /\ atStudents.tblCourseStudent = tblCourseStudent
               /\ atStudents.tblCourseStaff = tblCourseStaff
               /\ atStudents.tblAnnouncements = tblAnnouncements
               /\ c \notin DOMAIN atStaff.tblCourses
               /\ RowsOf(atStaff.tblCourseStudent, c) = <<>>
               /\ atStaff.tblCourseStaff = tblCourseStaff
               /\ atStaff.tblAnnouncements = tblAnnouncements

\* DeleteCourse(c1) stops after the course delete on a course with students and
\* staff: the course is gone and GetCourseStudents(c1) and GetCourseStaff(c1) still
\* list them.
AbortedDeleteKeepsItsSteps_witness ==
    /\ HasCourseAndAssociations(DbStore, "c1")
    /\ LET r == DbDeleteCourseFailing(DbStore, "c1", "students")
       IN /\ r.err # "nil"
          /\ DbGetCourse(r.st, "c1").err # "nil"
          /\ InCourseStudents(r.st, "c1", "s1")
          /\ InCourseStaff(r.st, "c1", "t1")

\* C27: in the relational store, after a DeleteCourse(c) that failed partway (course
\* row deleted, association rows left behind), a retried DeleteCourse(c) removes
\* the remaining course_student and course_staff rows of c.
RetriedDeleteRemovesLeftovers ==
    \A c \in DcCourseIDs, failing \in {"students", "staff"} :
        c \in DOMAIN tblCourses =>
            LET failed == DbDeleteCourseFailing(DbStore, c, failing)
                retry == DbDeleteCourseFailing(failed.st, c, "none")
            IN /\ RowsOf(retry.st.tblCourseStudent, c) = <<>>
               /\ RowsOf(retry.st.tblCourseStaff, c) = <<>>

\* C25: in the relational store an update or delete returns success only if its
\* write affected a row: DeleteCourse, RemoveStudentFromCourse, RemoveStaffFromCourse
\* and RemoveAnnouncement return nil only when a matching row was there, and the
\* UPDATE of an UpdateCourse whose course was deleted since it was read returns
\* ErrCourseNotFound, not success.
RowCountTellsNotFound ==
    /\ \A c \in DcCourseIDs :
          /\ DbDeleteCourse(DbStore, c).err = "nil" => c \in DOMAIN tblCourses
          /\ DbRemoveStudentFromCourse(DbStore, c, "s1").err = "nil" =>
                Copies(tblCourseStudent, <<c, "s1">>) > 0
          /\ DbRemoveStaffFromCourse(DbStore, c, "t1").err = "nil" =>
                Copies(tblCourseStaff, <<c, "t1">>) > 0
          /\ DbRemoveAnnouncement(DbStore, c, "a1").err = "nil" =>
                \E r \in DOMAIN tblAnnouncements : r.CourseID = c /\ r.AnnouncementID = "a1"
    /\ \A p \in BetweenReadAndWrite :
          LET w == DbUpdateCourseWrite(DbStore, threads[p].existingCourse)
          IN IF threads[p].existingCourse.CourseID \in DOMAIN tblCourses
             THEN w.err = "nil"
             ELSE w.err = "ErrCourseNotFound"

\* C28: in both stores a course id that is deleted and created again starts fresh:
\* after DeleteCourse(c) and AddCourse(c, ...) both succeed, GetCourseStudents(c),
\* GetCourseStaff(c) and GetAnnouncements(c) succeed with empty lists.
RecreatedCourseStartsFresh ==
    \A course \in RpcCourseMsgs \ {NilCourse} :
        LET c == course.CourseID
            deleted == CallDeleteCourse(c)
            created == OnAddCourse(deleted.st, course)
        IN (deleted.err = "nil" /\ created.err = "nil") =>
              /\ OnGetCourseStudents(created.st, c).err = "nil"
              /\ ListIsEmpty(OnGetCourseStudents(created.st, c).ret)
              /\ OnGetCourseStaff(created.st, c).err = "nil"
              /\ ListIsEmpty(OnGetCourseStaff(created.st, c).ret)
              /\ OnGetAnnouncements(created.st, c).err = "nil"
              /\ ListIsEmpty(OnGetAnnouncements(created.st, c).ret)

\* The reads on the maps m show nothing of course c: it is in no student's and no
\* staff member's course list, and its own lists are not found.
NothingLeftOf(m, c) ==
    /\ \A s \in StudentIDs \ {""} : ~Contains(MockGetStudentCourses(m, s).ret, c)
    /\ \A t \in StaffIDs \ {""} : ~Contains(MockGetStaffCourses(m, t).ret, c)
    /\ MockGetCourseStudents(m, c).err = "ErrCourseNotFound"
    /\ MockGetCourseStaff(m, c).err = "ErrCourseNotFound"
    /\ MockGetAnnouncements(m, c).err = "ErrCourseNotFound"
    /\ c \notin DOMAIN m.courseStudents \cup DOMAIN m.courseStaff \cup DOMAIN m.announcements

\* C29: in the in-memory store, whenever a read method is inside the store (and
\* whenever no writer holds the mutex), a course that is absent is in no student's
\* or staff member's course list and has no student, staff or announcement list:
\* the two parts of DeleteCourse's cascade, which together are DeleteCourse, run
\* with no reader inside.
CascadeInOneCriticalSection ==
    /\ (ReadersInside # {} \/ mutex.writer = NoWriter) =>
          \A c \in LockCourseIDs \ {""} :
              MockGetCourse(MockStore, c).err = "ErrCourseNotFound" =>
                  NothingLeftOf(MockStore, c)
    /\ \A p \in Threads :
          threads[p].pc = "cleanup" => ReadersInside = {} /\ mutex.writer = p
    /\ \A c \in LockCourseIDs \ {""} :
          c \in DOMAIN courses =>
              cleanUpAssociations(deleteCourseEntries(MockStore, c), c)
                = MockDeleteCourse(MockStore, c).st

\* A DeleteCourse(c1) is between the two parts of its cascade: c1 is gone and is
\* still in the course list of s1 and of t1; the other goroutine is outside.
CascadeInOneCriticalSection_witness ==
    \E p \in Threads :
        /\ threads[p].pc = "cleanup"
        /\ MockGetCourse(MockStore, "c1").err = "ErrCourseNotFound"
        /\ Contains(MockGetStudentCourses(MockStore, "s1").ret, "c1")
        /\ Contains(MockGetStaffCourses(MockStore, "t1").ret, "c1")
        /\ \A q \in Threads \ {p} : threads[q] = Idle

\* ---------------------------------------------------------------------------
\* Concurrent AddCourse calls, on either store.  A goroutine calls AddCourse
\* ("called"), returns on the argument checks, or reaches the store: the
\* MockDatabase takes m.mutex, looks the id up ("locked"), and stores the new
\* course ("inserting") before the deferred Unlock; the Database runs its one
\* INSERT, which the primary key course_id makes fail when the row exists.
\* "returned" keeps the error the call came back with until the goroutines
\* that were started have all come back.
\* ---------------------------------------------------------------------------
RaceCourseMsgs ==
    {NilCourse}
    \cup [CourseID : {"", "c1", "c2"}, CourseName : {"n1", "n2"},
          Semester : {"f1"}, Description : {"d1"}]

\* The id of the message names a course the store does not hold: m.courses has no
\* such key, the table courses no such row.
CourseAbsent(course) ==
    IF course = NilCourse THEN FALSE
    ELSE /\ course.CourseID # ""
         /\ course.CourseID \notin (IF IsMock THEN DOMAIN courses ELSE DOMAIN tblCourses)

\* m.courses[course.GetCourseID()] = newCourse
storeCourse(m, course) ==
    [m EXCEPT !.courses = Put(@, course.CourseID, NewCourse(course))]

Returned(t, err) == [pc |-> "returned", call |-> t.call, absent |-> t.absent, err |-> err]

RaceCall(p, course) ==
    /\ threads[p] = Idle
    /\ threads' = [threads EXCEPT ![p] =
                      [pc |-> "called", call |-> course,
                       absent |-> CourseAbsent(course), err |-> NoArg]]
    /\ UNCHANGED <<backend, storeVars, claims, mutex>>

\* The nil check and the empty-id check, the same in both stores.
RaceReturnEarly(p) ==
    /\ threads[p].pc = "called"
    /\ ReturnsBeforeLock(Call("AddCourse", threads[p].call, NoMsg, NoArg, NoArg))
    /\ threads' = [threads EXCEPT ![p] =
                      Returned(@, OnAddCourse(Store, threads[p].call).err)]
    /\ UNCHANGED <<backend, storeVars, claims, mutex>>

\* m.mutex.Lock()
RaceLock(p) ==
    /\ IsMock
    /\ threads[p].pc = "called"
    /\ ~ReturnsBeforeLock(Call("AddCourse", threads[p].call, NoMsg, NoArg, NoArg))
    /\ CanLock(mutex)
    /\ mutex' = [mutex EXCEPT !.writer = p]
    /\ threads' = [threads EXCEPT ![p].pc = "locked"]
    /\ UNCHANGED <<backend, storeVars, claims>>

\* if _, exists := m.courses[id]; exists { return nil, ErrCourseAlreadyExists }
RaceCheck(p) ==
    /\ threads[p].pc = "locked"
    /\ IF threads[p].call.CourseID \in DOMAIN courses
       THEN /\ threads' = [threads EXCEPT ![p] = Returned(@, "ErrCourseAlreadyExists")]
            /\ mutex' = [mutex EXCEPT !.writer = NoWriter]
       ELSE /\ threads' = [threads EXCEPT ![p].pc = "inserting"]
            /\ UNCHANGED mutex
    /\ UNCHANGED <<backend, storeVars, claims>>

\* The new course goes into the map; return newCourse, nil; the deferred Unlock.
RaceStore(p) ==
    /\ threads[p].pc = "inserting"
    /\ Commit(storeCourse(MockStore, threads[p].call))
    /\ threads' = [threads EXCEPT ![p] = Returned(@, "nil")]
    /\ mutex' = [mutex EXCEPT !.writer = NoWriter]
    /\ UNCHANGED <<backend, claims>>

\* d.db.NewInsert().Model(newCourse).Exec(ctx) and the return on its error.
RaceInsert(p) ==
    /\ ~IsMock
    /\ threads[p].pc = "called"
    /\ ~ReturnsBeforeLock(Call("AddCourse", threads[p].call, NoMsg, NoArg, NoArg))
    /\ LET r == DbAddCourse(DbStore, threads[p].call)
       IN /\ Commit(r.st)
          /\ threads' = [threads EXCEPT ![p] = Returned(@, r.err)]
    /\ UNCHANGED <<backend, claims, mutex>>

\* Every goroutine that was started has returned; the callers go on.
RaceJoin ==
    /\ \A p \in Threads : threads[p].pc \in {"idle", "returned"}
    /\ \E p \in Threads : threads[p].pc = "returned"
    /\ threads' = NoThreads
    /\ UNCHANGED <<backend, storeVars, claims, mutex>>

AddRaceInit ==
    /\ backend \in {"MockDatabase", "Database"}
    /\ courses = NewMockDatabase.courses
    /\ courseStudents = NewMockDatabase.courseStudents
    /\ courseStaff = NewMockDatabase.courseStaff
    /\ studentCourses = NewMockDatabase.studentCourses
    /\ staffCourses = NewMockDatabase.staffCourses
    /\ announcements = NewMockDatabase.announcements
    /\ tblCourses = NewDatabase.tblCourses
    /\ tblCourseStudent = NewDatabase.tblCourseStudent
    /\ tblCourseStaff = NewDatabase.tblCourseStaff
    /\ tblAnnouncements = NewDatabase.tblAnnouncements
    /\ claims = FALSE
    /\ threads = NoThreads
    /\ mutex = Unlocked

AddRaceNext ==
    \/ \E p \in Threads, course \in RaceCourseMsgs : RaceCall(p, course)
    \/ \E p \in Threads : RaceReturnEarly(p)
    \/ \E p \in Threads : RaceLock(p)
    \/ \E p \in Threads : RaceCheck(p)
    \/ \E p \in Threads : RaceStore(p)
    \/ \E p \in Threads : RaceInsert(p)
    \/ RaceJoin

AddRaceSpec == AddRaceInit /\ [][AddRaceNext]_vars

\* Goroutines p and q have both returned from AddCourse calls that were made with
\* the same id and different fields while the store did not hold the id, and no
\* third call of that kind was made with them.
RacedAddCourse(p, q) ==
    /\ p # q
    /\ threads[p].pc = "returned" /\ threads[q].pc = "returned"
    /\ threads[p].absent /\ threads[q].absent
    /\ threads[p].call.CourseID = threads[q].call.CourseID
    /\ threads[p].call # threads[q].call
    /\ \A r \in Threads \ {p, q} :
          threads[r].pc # "idle" /\ threads[r].absent =>
              threads[r].call.CourseID # threads[p].call.CourseID

\* C30: of two concurrent AddCourse calls with the same id, absent from the store,
\* and different fields, exactly one returns nil and the other an error, and the
\* store holds the course with the fields of the call that returned nil; in the
\* in-memory store the look-up and the assignment, run under the lock, are AddCourse.
AddCourseRaceHasOneWinner ==
    /\ \A p, q \in Threads :
          RacedAddCourse(p, q) =>
              /\ (threads[p].err = "nil") # (threads[q].err = "nil")
              /\ \A w \in {p, q} :
                    threads[w].err = "nil" =>
                        /\ OnGetCourse(Store, threads[w].call.CourseID).err = "nil"
                        /\ OnGetCourse(Store, threads[w].call.CourseID).ret
                             = NewCourse(threads[w].call)
    /\ \A p \in Threads :
          threads[p].pc = "inserting" =>
              storeCourse(MockStore, threads[p].call)
                = MockAddCourse(MockStore, threads[p].call).st

\* Both calls for c1 have returned, the first with nil, the second with an error.
AddCourseRaceHasOneWinner_witness ==
    /\ RacedAddCourse(1, 2)
    /\ threads[1].call.CourseID = "c1"
    /\ threads[1].err = "nil"
    /\ threads[2].err # "nil"
    /\ OnGetCourse(Store, "c1").ret = NewCourse(threads[1].call)

\* ---------------------------------------------------------------------------
\* The values the MockDatabase hands out.  AddCourse, GetCourse and
\* UpdateCourse return the *Course that is in m.courses; the five list reads
\* return a copy made under the lock.  A caller that keeps a result holds "seen",
\* the value at the return, and "now", the value the same object has at present;
\* "shared" says the object is still the one in m.courses.  UpdateCourse assigns
\* the fields of the object in the map, DeleteCourse takes it out of the map.
\* ---------------------------------------------------------------------------
ReturnsCoursePointer == {"AddCourse", "GetCourse", "UpdateCourse"}
ReturnsListCopy == {"GetCourseStudents", "GetCourseStaff", "GetStudentCourses",
                    "GetStaffCourses", "GetAnnouncements"}

\* The course id a call names.
CourseKey(call) ==
    IF call.op \in {"AddCourse", "UpdateCourse"}
    THEN (IF call.course = NilCourse THEN "" ELSE call.course.CourseID)
    ELSE call.a

\* What the caller holds after the call returned r.
Held(call, r) ==
    IF r.err # "nil" \/ call.op \notin ReturnsCoursePointer \cup ReturnsListCopy THEN Idle
    ELSE [pc |-> "holds", op |-> call.op, key |-> CourseKey(call),
          seen |-> r.ret, now |-> r.ret, shared |-> call.op \in ReturnsCoursePointer]

\* What becomes of a value held when another call returned r.
HeldAfter(t, call, r) ==
    IF t = Idle THEN t
    ELSE IF ~t.shared \/ r.err # "nil" \/ t.key # CourseKey(call) THEN t
    ELSE IF call.op = "UpdateCourse" THEN [t EXCEPT !.now = r.ret]
    ELSE IF call.op = "DeleteCourse" THEN [t EXCEPT !.shared = FALSE]
    ELSE t

\* UpdateCourse has found existingCourse and assigns its fields.
Assigns(call) == call.op = "UpdateCourse" /\ MockApply(MockStore, call).err = "nil"

\* A caller that holds nothing calls a method and keeps what it returns. The call
\* runs under m.mutex, in one step; an UpdateCourse that finds its course is the
\* steps HoldUpdateCourse and HoldUpdateCourseReturn.
HoldCall(p, call) ==
    /\ threads[p] = Idle
    /\ CanLock(mutex)
    /\ ~Assigns(call)
    /\ Appends(call) => MockSize < MaxRows
    /\ LET r == MockApply(MockStore, call)
       IN /\ Commit(r.st)
          /\ threads' = [q \in Threads |->
                            IF q = p THEN Held(call, r)
                            ELSE HeldAfter(threads[q], call, r)]
    /\ UNCHANGED <<backend, claims, mutex>>

\* m.mutex.Lock() after the nil and empty-id returns, and the look-up of
\* existingCourse: the caller is about to assign CourseName, Semester and
\* Description of the object of the map.
HoldUpdateCourse(p, call) ==
    /\ threads[p] = Idle
    /\ CanLock(mutex)
    /\ Assigns(call)
    /\ mutex' = [mutex EXCEPT !.writer = p]
    /\ threads' = [threads EXCEPT ![p] = [pc |-> "assigning", call |-> call]]
    /\ UNCHANGED <<backend, storeVars, claims>>

\* What a read of the three fields can return while they are assigned from old to
\* new: each field read falls before or after the assignment of that field.
CourseMixes(old, new) ==
    {[CourseID |-> old.CourseID, CourseName |-> n, Semester |-> s, Description |-> d] :
        n \in {old.CourseName, new.CourseName},
        s \in {old.Semester, new.Semester},
        d \in {old.Description, new.Description}}

\* A holder of the *Course that p assigns reads it, without the lock.
HoldRead(q, p) ==
    /\ threads[p].pc = "assigning"
    /\ threads[q].pc = "holds"
    /\ threads[q].shared
    /\ threads[q].key = CourseKey(threads[p].call)
    /\ \E v \in CourseMixes(courses[threads[q].key],
                              MockApply(MockStore, threads[p].call).ret) :
          threads' = [threads EXCEPT ![q].now = v]
    /\ UNCHANGED <<backend, storeVars, claims, mutex>>

\* The three assignments are done: m.courses[id] = existingCourse, the return of
\* existingCourse and the deferred Unlock.
HoldUpdateCourseReturn(p) ==
    /\ threads[p].pc = "assigning"
    /\ LET call == threads[p].call
           r == MockApply(MockStore, call)
       IN /\ Commit(r.st)
          /\ threads' = [q \in Threads |->
                            IF q = p THEN Held(call, r)
                            ELSE HeldAfter(threads[q], call, r)]
    /\ mutex' = [mutex EXCEPT !.writer = NoWriter]
    /\ UNCHANGED <<backend, claims>>

\* The caller lets go of the value.
Release(p) ==
    /\ threads[p].pc = "holds"
    /\ threads' = [threads EXCEPT ![p] = Idle]
    /\ UNCHANGED <<backend, storeVars, claims, mutex>>

HoldNext ==
    \/ \E p \in Threads, call \in LockCalls : HoldCall(p, call)
    \/ \E p \in Threads, call \in LockCalls : HoldUpdateCourse(p, call)
    \/ \E q, p \in Threads : HoldRead(q, p)
    \/ \E p \in Threads : HoldUpdateCourseReturn(p)
    \/ \E p \in Threads : Release(p)

HoldSpec == LockInit /\ [][HoldNext]_vars

\* C31: a value returned by the in-memory store is a snapshot: whatever a caller
\* holds (a Course from AddCourse, GetCourse or UpdateCourse, a list from one of
\* the five list reads) still has the value it had when it was returned.
ReturnedValuesAreSnapshots ==
    \A p \in Threads : threads[p].pc = "holds" => threads[p].now = threads[p].seen

\* The store st with the record of course c left out.
WithoutCourseRecord(st, c) ==
    IF IsMock THEN [st EXCEPT !.courses = Del(@, c)]
    ELSE [st EXCEPT !.tblCourses = Del(@, c)]

\* What the reads show of course c besides its record.
AssociationsView(st, c) == [CourseView(st, c) EXCEPT !.course = NoValue]

\* C32: in both stores UpdateCourse changes nothing but the record of its target:
\* a failed call leaves the store as it was; after a successful one the store is
\* the same but for the target's record, the same courses exist, the target's
\* students, staff and announcements read as before, and every other course
\* reads as before.  On a Database the same holds of each statement, wherever it
\* falls: the SELECT changes nothing, and the UPDATE of a goroutine in flight (or
\* of any row) changes the row of its id at most and adds none.
UpdateCourseChangesOnlyItsRecord ==
    /\ \A course \in CourseMsgs \cup {NilCourse} :
          LET r == CallUpdateCourse(course)
              c == CourseFields(course).CourseID
          IN /\ r.err # "nil" => r.st = Store
             /\ r.err = "nil" =>
                   /\ WithoutCourseRecord(r.st, c) = WithoutCourseRecord(Store, c)
                   /\ OnGetCourse(r.st, c).err = "nil" /\ CourseExists(c)
                   /\ AssociationsView(r.st, c) = AssociationsView(Store, c)
                   /\ \A other \in CourseIDs \ {"", c} :
                         CourseView(r.st, other) = CourseView(Store, other)
    /\ ~IsMock =>
          /\ \A course \in CourseMsgs \cup {NilCourse} :
                DbUpdateCourseRead(DbStore, course).st = DbStore
          /\ \A row \in CourseMsgs
                        \cup {threads[p].existingCourse : p \in BetweenReadAndWrite} :
                LET w == DbUpdateCourseWrite(DbStore, row)
                    c == row.CourseID
                IN /\ WithoutCourseRecord(w.st, c) = WithoutCourseRecord(DbStore, c)
                   /\ DOMAIN w.st.tblCourses = DOMAIN tblCourses
                   /\ AssociationsView(w.st, c) = AssociationsView(DbStore, c)
                   /\ \A other \in CourseIDs \ {"", c} :
                         CourseView(w.st, other) = CourseView(DbStore, other)

\* Course c1 has a student, a staff member and an announcement, course c2 exists,
\* and an UpdateCourse of c1 succeeds and changes its record.
UpdateCourseChangesOnlyItsRecord_witness ==
    /\ CourseExists("c1") /\ CourseExists("c2")
    /\ \E s \in StudentIDs : InCourseStudents(Store, "c1", s)
    /\ \E t \in StaffIDs : InCourseStaff(Store, "c1", t)
    /\ \E a \in AnnouncementIDs : AnnouncementPresent("c1", a)
    /\ \E course \in CourseMsgs :
          /\ course.CourseID = "c1"
          /\ CallUpdateCourse(course).err = "nil"
          /\ CallUpdateCourse(course).ret # CallGetCourse("c1").ret

\* ---------------------------------------------------------------------------
\* Announcements with three ids, on either store: courses are created, a student
\* is enrolled, and announcements are added, read and removed.
\* ---------------------------------------------------------------------------
AnnIDs == {"a1", "a2", "a3"}
AnnCourses ==
    [CourseID : {"c1", "c2"}, CourseName : {"n1"}, Semester : {"f1"}, Description : {"d1"}]
AnnMsgs ==
    [AnnouncementID : AnnIDs, AnnouncementTitle : {"ti"}, AnnouncementContent : {"x"}]

AnnNext ==
    \/ \E course \in AnnCourses : AddCourse(course)
    \/ \E c \in CourseIDs \ {""} : AddStudentToCourse(c, "s1")
    \/ \E c \in CourseIDs \ {""}, a \in AnnMsgs : AddAnnouncement(c, a)
    \/ \E c \in CourseIDs : GetAnnouncements(c)
    \/ \E c \in CourseIDs, a \in AnnIDs \cup {""} : RemoveAnnouncement(c, a)

AnnSpec == Init /\ [][AnnNext]_vars

\* The announcements of list whose id is not a: for the slice the in-memory store
\* returns, those elements in their order; for the rows the relational store
\* returns (a SELECT without ORDER BY, which has no order of its own), those rows
\* with their numbers of copies.
OthersOf(list, a) ==
    IF IsMock THEN LET keep(e) == e.AnnouncementID # a IN SelectSeq(list, keep)
    ELSE [row \in {x \in DOMAIN list : x.AnnouncementID # a} |-> list[row]]

\* The store st with the announcements of course c left out.
WithoutAnnouncementsOf(st, c) ==
    IF IsMock THEN [st EXCEPT !.announcements = Del(@, c)]
    ELSE [st EXCEPT !.tblAnnouncements =
              [row \in {x \in DOMAIN @ : x.CourseID # c} |-> @[row]]]

\* C33: in both stores a successful RemoveAnnouncement(c, id) removes the
\* announcements of c with that id and only those: GetAnnouncements(c) then returns
\* the other announcements of c, in their original order, and none with the id; the
\* rest of the store (course records, associations, announcements of other courses)
\* is unchanged.
RemoveAnnouncementRemovesOnlyThatID ==
    \A c \in CourseIDs, a \in AnnIDs \cup {""} :
        LET r == CallRemoveAnnouncement(c, a)
            before == CallGetAnnouncements(c)
            after == OnGetAnnouncements(r.st, c)
        IN r.err = "nil" =>
              /\ before.err = "nil" /\ after.err = "nil"
              /\ EntriesWithID(before.ret, a) >= 1
              /\ EntriesWithID(after.ret, a) = 0
              /\ after.ret = OthersOf(before.ret, a)
              /\ WithoutAnnouncementsOf(r.st, c) = WithoutAnnouncementsOf(Store, c)
              /\ \A other \in CourseIDs \ {"", c} :
                    CourseView(r.st, other) = CourseView(Store, other)

\* Course c1 has three announcements, the one with id a2 between two others with
\* different ids; course c2 has an announcement with id a2 too; RemoveAnnouncement
\* (c1, a2) succeeds and two announcements of c1 are left.
RemoveAnnouncementRemovesOnlyThatID_witness ==
    LET before == CallGetAnnouncements("c1")
        r == CallRemoveAnnouncement("c1", "a2")
    IN /\ before.err = "nil"
       /\ EntriesWithID(before.ret, "a1") = 1
       /\ EntriesWithID(before.ret, "a2") = 1
       /\ EntriesWithID(before.ret, "a3") = 1
       /\ IsMock => before.ret[2].AnnouncementID = "a2"
       /\ r.err = "nil"
       /\ EntriesWithID(OnGetAnnouncements(r.st, "c1").ret, "a1") = 1
       /\ EntriesWithID(OnGetAnnouncements(r.st, "c1").ret, "a3") = 1

\* The tokens a request can carry, the empty one included.
AnyToken == Tokens \cup {""}

\* C34: with a Claims value injected, VerifyToken returns nil for every token, the
\* empty one included, and does not call the base verifier, so no handler answers
\* Unauthenticated; with none injected, VerifyToken calls the base verifier and
\* returns nil exactly when the base verifier accepts the token.
GateIsSubstitutable ==
    \A token \in AnyToken :
        /\ claims =>
              /\ VerifyToken(token) = "nil"
              /\ VerifyTokenCalls(token) = <<>>
              /\ \A c \in CourseIDs :
                    /\ OnSvcGetCourse(Store, token, c).code # "Unauthenticated"
                    /\ OnSvcDeleteCourse(Store, token, c).code # "Unauthenticated"
        /\ ~claims =>
              /\ VerifyTokenCalls(token) = <<"BaseVerifyToken">>
              /\ VerifyToken(token) = "nil" <=> BaseVerifyToken(token)
              /\ \A c \in CourseIDs :
                    OnSvcGetCourse(Store, token, c).code = "Unauthenticated"
                        <=> ~BaseVerifyToken(token)

\* A Claims value is injected, course c1 exists, and GetCourse(c1) is answered for
\* the empty token and for a token the base verifier rejects.
GateIsSubstitutable_witness ==
    /\ claims
    /\ ~BaseVerifyToken("") /\ ~BaseVerifyToken("bad")
    /\ OnSvcGetCourse(Store, "", "c1").code = "OK"
    /\ OnSvcGetCourse(Store, "bad", "c1").code = "OK"

\* The courses that exist now, as GetCourse returns them.
ExistingCourses == {CallGetCourse(c).ret : c \in {x \in CourseIDs : CourseExists(x)}}

\* C35: in the relational store, in every state the AddCourse, UpdateCourse and
\* DeleteCourse calls lead to, GetCoursesBySemester(sem) with a non-empty sem returns
\* exactly the existing courses whose semester is sem (none when there is none), and
\* with an empty sem returns ErrSemesterEmpty; it leaves the store unchanged.
CoursesBySemesterAreTheExistingOnes ==
    ~IsMock =>
        \A sem \in Semesters \cup {"f2"} :
            LET r == DbGetCoursesBySemester(DbStore, sem)
            IN /\ r.st = DbStore
               /\ sem = "" => r.err = "ErrSemesterEmpty"
               /\ sem # "" =>
                     /\ r.err = "nil"
                     /\ r.ret = {course \in ExistingCourses : course.Semester = sem}

\* Courses c1 and c2 exist, c1 without a semester and c2 in f1, and
\* GetCoursesBySemester(f1) returns c2 alone, GetCoursesBySemester(f2) nothing.
CoursesBySemesterAreTheExistingOnes_witness ==
    /\ ~IsMock
    /\ CourseExists("c1") /\ CourseExists("c2")
    /\ CallGetCourse("c1").ret.Semester = ""
    /\ DbGetCoursesBySemester(DbStore, "f1").ret = {CallGetCourse("c2").ret}
    /\ DbGetCoursesBySemester(DbStore, "f2").ret = {}

\* ---------------------------------------------------------------------------
\* A finite set of concurrent calls on the MockDatabase: every goroutine makes
\* one call.  The call is made ("called"), returns on its argument check or takes
\* m.mutex ("locked", "rlocked"), runs its body, and returns with the deferred
\* Unlock or RUnlock ("returned").  The store is new, or holds a course with a
\* student, a staff member and an announcement.
\* ---------------------------------------------------------------------------
CallReturned == [pc |-> "returned"]

PopulatedMock ==
    LET m1 == MockAddCourse(NewMockDatabase,
                  [CourseID |-> "c1", CourseName |-> "n1", Semester |-> "f1",
                   Description |-> "d1"]).st
        m2 == MockAddStudentToCourse(m1, "c1", "s1").st
        m3 == MockAddStaffToCourse(m2, "c1", "t1").st
    IN MockAddAnnouncement(m3,
           [CourseID |-> "c1",
            Announcement |-> [AnnouncementID |-> "a1", AnnouncementTitle |-> "ti",
                              AnnouncementContent |-> "x"]]).st

\* One call of every method with arguments that pass its checks, and the calls
\* that fail the argument check of AddCourse, DeleteCourse, GetCourse,
\* AddStudentToCourse and RemoveAnnouncement.
LiveCalls ==
    {call \in LockCalls : ~ReturnsBeforeLock(call) /\ call.a # "" /\ call.b # ""}
    \cup {Call("AddCourse", NilCourse, NoMsg, NoArg, NoArg),
          Call("DeleteCourse", NoMsg, NoMsg, "", NoArg),
          Call("GetCourse", NoMsg, NoMsg, "", NoArg),
          Call("AddStudentToCourse", NoMsg, NoMsg, "c1", ""),
          Call("RemoveAnnouncement", NoMsg, NoMsg, "c1", "")}

LiveCall(p, call) ==
    /\ threads[p] = Idle
    /\ threads' = [threads EXCEPT ![p] = [pc |-> "called", call |-> call]]
    /\ UNCHANGED <<backend, storeVars, claims, mutex>>

\* The argument check before the lock fails: return without locking.
LiveReturnEarly(p) ==
    /\ threads[p].pc = "called"
    /\ ReturnsBeforeLock(threads[p].call)
    /\ threads' = [threads EXCEPT ![p] = CallReturned]
    /\ UNCHANGED <<backend, storeVars, claims, mutex>>

\* m.mutex.Lock()
LiveLock(p) ==
    /\ threads[p].pc = "called"
    /\ threads[p].call.op \in MockWriters
    /\ ~ReturnsBeforeLock(threads[p].call)
    /\ CanLock(mutex)
    /\ mutex' = [mutex EXCEPT !.writer = p]
    /\ threads' = [threads EXCEPT ![p].pc = "locked"]
    /\ UNCHANGED <<backend, storeVars, claims>>

\* m.mutex.RLock()
LiveRLock(p) ==
    /\ threads[p].pc = "called"
    /\ threads[p].call.op \in MockReaders
    /\ ~ReturnsBeforeLock(threads[p].call)
    /\ CanRLock(mutex)
    /\ mutex' = [mutex EXCEPT !.readers = @ \cup {p}]
    /\ threads' = [threads EXCEPT ![p].pc = "rlocked"]
    /\ UNCHANGED <<backend, storeVars, claims>>

\* The deferred m.mutex.Unlock() of a writing method, on whichever return.
DeferredUnlock_onlyOnSuccess(p, err) ==
    mutex' = IF err = "nil" THEN [mutex EXCEPT !.writer = NoWriter] ELSE mutex
DeferredUnlock(p, err) == mutex' = [mutex EXCEPT !.writer = NoWriter]

\* The body of a writing method, to its return.
LiveRunLocked(p) ==
    /\ threads[p].pc = "locked"
    /\ ~DeletesCourse(threads[p].call)
    /\ LET r == MockApply(MockStore, threads[p].call)
       IN /\ Commit(r.st)
          /\ DeferredUnlock(p, r.err)
    /\ threads' = [threads EXCEPT ![p] = CallReturned]
    /\ UNCHANGED <<backend, claims>>

\* DeleteCourse of an existing course: the deletes, then the clean-up loops and
\* the return.
LiveDeleteCourseEntries(p) ==
    /\ threads[p].pc = "locked"
    /\ DeletesCourse(threads[p].call)
    /\ Commit(deleteCourseEntries(MockStore, threads[p].call.a))
    /\ threads' = [threads EXCEPT ![p].pc = "cleanup"]
    /\ UNCHANGED <<backend, claims, mutex>>
LiveDeleteCourseCleanUp(p) ==
    /\ threads[p].pc = "cleanup"
    /\ Commit(cleanUpAssociations(MockStore, threads[p].call.a))
    /\ DeferredUnlock(p, "nil")
    /\ threads' = [threads EXCEPT ![p] = CallReturned]
    /\ UNCHANGED <<backend, claims>>

\* The body of a reading method, to its return with the deferred m.mutex.RUnlock().
LiveRunRLocked(p) ==
    /\ threads[p].pc = "rlocked"
    /\ Commit(MockApply(MockStore, threads[p].call).st)
    /\ mutex' = [mutex EXCEPT !.readers = @ \ {p}]
    /\ threads' = [threads EXCEPT ![p] = CallReturned]
    /\ UNCHANGED <<backend, claims>>

LiveInit ==
    /\ backend = "MockDatabase"
    /\ \E m \in {NewMockDatabase, PopulatedMock} :
          /\ courses = m.courses
          /\ courseStudents = m.courseStudents
          /\ courseStaff = m.courseStaff
          /\ studentCourses = m.studentCourses
          /\ staffCourses = m.staffCourses
          /\ announcements = m.announcements
    /\ tblCourses = NewDatabase.tblCourses
    /\ tblCourseStudent = NewDatabase.tblCourseStudent
    /\ tblCourseStaff = NewDatabase.tblCourseStaff
    /\ tblAnnouncements = NewDatabase.tblAnnouncements
    /\ claims = FALSE
    /\ threads = NoThreads
    /\ mutex = Unlocked

\* The steps of goroutine p inside its call.
LiveStep(p) ==
    \/ LiveReturnEarly(p)
    \/ LiveLock(p)
    \/ LiveRLock(p)
    \/ LiveRunLocked(p)
    \/ LiveDeleteCourseEntries(p)
    \/ LiveDeleteCourseCleanUp(p)
    \/ LiveRunRLocked(p)

LiveNext ==
    \/ \E p \in Threads, call \in LiveCalls : LiveCall(p, call)
    \/ \E p \in Threads : LiveReturnEarly(p)
    \/ \E p \in Threads : LiveLock(p)
    \/ \E p \in Threads : LiveRLock(p)
    \/ \E p \in Threads : LiveRunLocked(p)
    \/ \E p \in Threads : LiveDeleteCourseEntries(p)
    \/ \E p \in Threads : LiveDeleteCourseCleanUp(p)
    \/ \E p \in Threads : LiveRunRLocked(p)

\* The scheduler runs every goroutine that can take a step.
LiveSpec ==
    /\ LiveInit
    /\ [][LiveNext]_vars
    /\ \A p \in Threads : WF_vars(LiveStep(p))

\* Goroutine p holds the mutex, in either mode.
HoldsMutex(p) == mutex.writer = p \/ p \in mutex.readers

\* A goroutine holds the mutex exactly while it is inside a body: not when it is
\* about to lock, and not after it returned.
LockHeldOnlyInside ==
    \A p \in Threads :
        HoldsMutex(p) <=> threads[p].pc \in {"locked", "cleanup", "rlocked"}

\* No goroutine is inside a call: each has not called yet, or has returned.
NoCallInFlight == \A p \in Threads : threads[p] \in {Idle, CallReturned}

\* C36: the in-memory store never deadlocks: a goroutine holds the mutex only
\* inside a method body (it has released it on every return, and does not hold it
\* when it locks), and under fair scheduling every call of the finite set that is
\* made returns: from some point on no call is in flight.
EveryCallReturns ==
    /\ []LockHeldOnlyInside
    /\ <>[]NoCallInFlight

\* Goroutine 2 is inside DeleteCourse, between the two parts of its cascade, and
\* goroutine 1 has called a method and waits for the mutex.
EveryCallReturns_witness ==
    /\ threads[2].pc = "cleanup"
    /\ threads[1].pc = "called"
    /\ ~ReturnsBeforeLock(threads[1].call)
    /\ ~CanLock(mutex) /\ ~CanRLock(mutex)

====
